---- MODULE Spec2Model ----
(***************************************************************************)
(* Chunked transcription pipeline of longani-transcricao-audio:            *)
(*   - useChunkedTranscription (hooks/useChunkedTranscription.ts)          *)
(*   - the audio slicers (createAudioChunks, splitAudioFile,               *)
(*     splitAudioIntoChunks)                                               *)
(*   - LocalTranscriptionService: model initialisation and one            *)
(*     transcribeAudio call (utils/localTranscriptionService.ts)           *)
(*   - the Index page's choice between one file and parts (pages/Index.tsx)*)
(*   - PortugueseProcessor.processTranscript (utils/portugueseNLP.ts)      *)
(* In the hook a JavaScript string is modelled by the sequence of its      *)
(* space-separated tokens, i.e. by s.split(' '): "" is <<"">>, "a b" is    *)
(* <<"a","b">> and "a b " is <<"a","b","">>.  In the service and in the    *)
(* processor, whose code works on punctuation and line breaks, a string is *)
(* the sequence of its lexemes: words, single white-space characters or    *)
(* line breaks, punctuation marks and markup; there "" is <<>>.            *)
(***************************************************************************)
EXTENDS Integers, Sequences, FiniteSets, TLC

\* ------------------------------------------------------------------ bounds
MaxChunks == 2        \* largest number of chunks of a file in the hook model
MaxResults == 1       \* final recognition results delivered per chunk
MaxSamples == 64      \* longest audio buffer given to a slicer, in samples
MaxSegDur == 4        \* largest segment duration passed to a slicer, in seconds
MaxCallers == 3       \* concurrent callers of LocalTranscriptionService
MaxSegments == 3      \* segments stitched one after the other
MaxWords == 3         \* longest segment text given to the stitcher, in words
MaxSentences == 3     \* most sentences of a text given to processTranscript
MaxFinals == 2        \* result events with final text in one recognition session

\* ------------------------------------------------------- program constants
CHUNK_DURATION == 30
OVERLAP_DURATION == 2
MAX_AUDIO_DURATION == 180
LOCAL_CHUNK_SECONDS == 120

Words == {"a", "b"}
Null == "null"
NoOutcome ==
  [status |-> "none", transcribedText |-> <<"">>, wordCount |-> 0,
   toastSegments |-> 0, message |-> "null"]

Min(a, b) == IF a < b THEN a ELSE b

\* ----------------------------------------------------------------- strings
EmptyStr == <<"">>

\* s.trim(): leading and trailing empty tokens are leading/trailing spaces
RECURSIVE TrimLeft(_)
TrimLeft(s) ==
  IF Len(s) > 1 /\ s[1] = "" THEN TrimLeft(Tail(s)) ELSE s

RECURSIVE TrimRight(_)
TrimRight(s) ==
  IF Len(s) > 1 /\ s[Len(s)] = "" THEN TrimRight(SubSeq(s, 1, Len(s) - 1)) ELSE s

Trim(s) == TrimRight(TrimLeft(s))

\* s + t
Concat(s, t) ==
  SubSeq(s, 1, Len(s) - 1) \o <<s[Len(s)] \o t[1]>> \o Tail(t)

\* s + ' ' + t
ConcatSp(s, t) == s \o t

\* s.split(' ')
Split(s) == s

\* a.join(' ') of an array of tokens ([] joins to "")
Join(a) == IF a = <<>> THEN EmptyStr ELSE a

\* a.slice(-3)
Last3(a) == SubSeq(a, IF Len(a) > 3 THEN Len(a) - 2 ELSE 1, Len(a))

\* a.slice(n)
SliceFrom(a, n) == SubSeq(a, n + 1, Len(a))

Includes(a, w) == \E p \in 1..Len(a) : a[p] = w

\* s.split(/\s+/).filter(word => word.length > 0).length
WordCount(s) == Cardinality({p \in 1..Len(s) : s[p] # ""})

\* ----------------------------------------------------------------- slicing
\* the window without the clipping to the buffer end
ChunkWindow_Unclipped(start, totalSamples, chunkSamples) ==
  [start |-> start, end |-> start + chunkSamples]

\* one iteration of the slicing loop: the sample window [start, end)
ChunkWindow(start, totalSamples, chunkSamples) ==
  [start |-> start, end |-> Min(start + chunkSamples, totalSamples)]

RECURSIVE SliceLoop(_, _, _, _, _)
SliceLoop(start, totalSamples, chunkSamples, stepSamples, acc) ==
  IF start < totalSamples
  THEN SliceLoop(start + stepSamples, totalSamples, chunkSamples, stepSamples,
                 Append(acc, ChunkWindow(start, totalSamples, chunkSamples)))
  ELSE acc

createAudioChunks(totalSamples, sampleRate) ==
  LET chunkSamples == CHUNK_DURATION * sampleRate
      overlapSamples == OVERLAP_DURATION * sampleRate
  IN SliceLoop(0, totalSamples, chunkSamples, chunkSamples - overlapSamples, <<>>)

\* ------------------------------------------------------------------- state
VARIABLES
  isProcessing,        \* useState(false)
  chunkProgress,       \* useState<ChunkProgress | null>(null)
  transcript,          \* useState('')
  error,               \* useState<string | null>(null)
  abortControllerRef,  \* useRef: 0 is null, r is the controller made by run r
  aborted,             \* signal.aborted of each controller
  pc,                  \* position of each transcribeAudioChunked invocation
  chunks,              \* its chunks
  idx,                 \* its loop variable i
  finalTranscript,     \* its local finalTranscript
  outcome,             \* what it returned or threw
  recog,               \* state of the SpeechRecognition made for each chunk
  audio,               \* state of the Audio element of the call in flight
  recResult,           \* the `result` accumulator of the call in flight
  nResults,            \* number of results delivered to the call in flight
  file,                \* its input file: [length, sampleRate]
  segLog,              \* per run: the settled segment calls, in order
  cancelPhase,         \* per run: where it was when its controller was aborted
  published            \* per run: the values it passed to setChunkProgress, in order

hookVars == <<isProcessing, chunkProgress, transcript, error, abortControllerRef, aborted>>
runVars ==
  <<pc, chunks, idx, finalTranscript, outcome, recog, audio, recResult, nResults, file, segLog,
    cancelPhase, published>>
chunkedVars == <<hookVars, runVars>>

\* LocalTranscriptionService (utils/localTranscriptionService.ts)
VARIABLES
  whisperPipeline,     \* private static whisperPipeline: "null" or the device loaded
  isModelLoading,      \* private static isModelLoading
  wpc,                 \* position of each caller
  callKind,            \* what the caller called: initializeWhisper or transcribeAudio
  initReturn,          \* how the caller's initializeWhisper call went
  nLoaded,             \* number of pipelines constructed so far
  wProgress            \* the events passed to each caller's onProgress, in order

whisperVars ==
  <<whisperPipeline, isModelLoading, wpc, callKind, initReturn, nLoaded, wProgress>>

\* one call of a slicer: createAudioChunks, splitAudioFile or splitAudioIntoChunks
VARIABLES
  sliceCall,           \* the call: [fn, total, rate, dur]
  slicePc,             \* "called", "slicing", "resolved" or "rejected"
  decoded,             \* decodeAudioData has produced the audioBuffer
  sliceStart,          \* the loop variable start
  sliceOut             \* the chunks pushed so far, as sample windows

sliceVars == <<sliceCall, slicePc, decoded, sliceStart, sliceOut>>

\* an invocation of transcribeAudioChunked and a later one that overlaps it
Runs == {1, 2}
ChunkIdx == 0..(MaxChunks - 1)

\* files of 1, 2, ... chunks for the 30 s / 2 s slicing at 1 sample per second
StepSeconds == CHUNK_DURATION - OVERLAP_DURATION
FileLengths == {(n - 1) * StepSeconds + 1 : n \in 1..MaxChunks}

ChunkedInit ==
  /\ isProcessing = FALSE
  /\ chunkProgress = <<>>
  /\ transcript = EmptyStr
  /\ error = Null
  /\ abortControllerRef = 0
  /\ aborted = [r \in Runs |-> FALSE]
  /\ pc = [r \in Runs |-> "idle"]
  /\ chunks = [r \in Runs |-> <<>>]
  /\ idx = [r \in Runs |-> 0]
  /\ finalTranscript = [r \in Runs |-> EmptyStr]
  /\ outcome = [r \in Runs |-> NoOutcome]
  /\ recog = [r \in Runs |-> [k \in ChunkIdx |-> "none"]]
  /\ audio = [r \in Runs |-> "none"]
  /\ recResult = [r \in Runs |-> EmptyStr]
  /\ nResults = [r \in Runs |-> 0]
  /\ file = [r \in Runs |-> [length |-> 0, sampleRate |-> 1]]
  /\ segLog = [r \in Runs |-> <<>>]
  /\ cancelPhase = [r \in Runs |-> "none"]
  /\ published = [r \in Runs |-> <<>>]

\* lines 159-175: append chunkText of chunk i to finalTranscript
StartIdx(words, lastWords) ==
  LET hits == {j \in 0..(Min(3, Len(words)) - 1) : Includes(lastWords, words[j + 1])}
  IN IF hits = {} THEN 0 ELSE (CHOOSE j \in hits : \A h \in hits : h <= j) + 1

\* the chunk text put in front of the accumulated text
Stitch_Prepends(i, chunkText, ft) ==
  IF i > 0 /\ chunkText # EmptyStr /\ ft # EmptyStr
  THEN ConcatSp(chunkText, ft)
  ELSE Concat(ft, chunkText)

Stitch(i, chunkText, ft) ==
  IF i > 0 /\ chunkText # EmptyStr /\ ft # EmptyStr
  THEN LET words == Split(chunkText)
           lastWords == Last3(Split(ft))
       IN ConcatSp(ft, Join(SliceFrom(words, StartIdx(words, lastWords))))
  ELSE Concat(ft, chunkText)

\* lines 190-200 and 202-205: the returned TranscriptionResult and the toast
Completed(ft, totalChunks) ==
  [status |-> "completed", transcribedText |-> Trim(ft), wordCount |-> WordCount(ft),
   toastSegments |-> totalChunks, message |-> Null]

\* lines 209-212: the rethrown error
Thrown(msg) ==
  [status |-> "thrown", transcribedText |-> EmptyStr, wordCount |-> 0,
   toastSegments |-> 0, message |-> msg]

\* lines 149-157 and 187-217: the loop head for i = next of run r, reached with the
\* local finalTranscript ft, the transcript state tr, the chunk list cs and the
\* recognizers rb; runs up to the next await or to the end of the invocation.
\* The abort check of transcribeChunk (line 76) reads the same ref as line 150
\* in the same synchronous block, so it never rejects here.
LoopBranch(next, cs) ==
  IF next >= Len(cs) THEN "completed"
  ELSE IF abortControllerRef = 0 THEN "typeerror"
  ELSE IF aborted[abortControllerRef] THEN "cancelled"
  ELSE "next"

\* lines 143, 154 and 184: the argument of setChunkProgress
ChunkProgress(currentChunk, totalChunks, percent) ==
  [currentChunk |-> currentChunk, totalChunks |-> totalChunks, chunkProgress |-> percent]

LoopHead(r, next, ft, tr, cs, rb) ==
  LET branch == LoopBranch(next, cs)
      msg == IF branch = "cancelled" THEN "Transcription cancelled"
             ELSE "Cannot read properties of null"
  IN /\ finalTranscript' = [finalTranscript EXCEPT ![r] = ft]
     /\ idx' = [idx EXCEPT ![r] = next]
     /\ chunks' = [chunks EXCEPT ![r] = cs]
     /\ transcript' = tr
     /\ recResult' = [recResult EXCEPT ![r] = EmptyStr]
     /\ nResults' = [nResults EXCEPT ![r] = 0]
     /\ UNCHANGED <<aborted, file, cancelPhase>>
     /\ published' = [published EXCEPT ![r] =
                        @ \o <<IF next = 0 THEN ChunkProgress(0, Len(cs), 0)
                               ELSE ChunkProgress(next, Len(cs), 100)>>
                          \o (IF branch = "next"
                              THEN <<ChunkProgress(next + 1, Len(cs), 0)>> ELSE <<>>)]
     /\ IF branch = "next"
        THEN /\ chunkProgress' = <<ChunkProgress(next + 1, Len(cs), 0)>>
             /\ recog' = [rb EXCEPT ![r][next] = "active"]
             /\ audio' = [audio EXCEPT ![r] = "starting"]
             /\ pc' = [pc EXCEPT ![r] = "transcribing"]
             /\ UNCHANGED <<isProcessing, error, abortControllerRef, outcome>>
        ELSE /\ recog' = rb
             /\ audio' = [audio EXCEPT ![r] = "none"]
             /\ pc' = [pc EXCEPT ![r] = IF branch = "completed" THEN "completed" ELSE "failed"]
             /\ outcome' = [outcome EXCEPT ![r] = IF branch = "completed"
                                                  THEN Completed(ft, Len(cs)) ELSE Thrown(msg)]
             /\ error' = IF branch = "completed" THEN error ELSE msg
             /\ isProcessing' = FALSE
             /\ chunkProgress' = <<>>
             /\ abortControllerRef' = 0

\* lines 124-140: transcribeAudioChunked up to `await createAudioChunks(file)`
StartRun(r) ==
  /\ pc[r] = "idle"
  /\ \A q \in Runs : q < r => pc[q] \in {"splitting", "transcribing"}
  /\ \E len \in FileLengths : file' = [file EXCEPT ![r] = [length |-> len, sampleRate |-> 1]]
  /\ isProcessing' = TRUE
  /\ transcript' = EmptyStr
  /\ error' = Null
  /\ abortControllerRef' = r
  /\ pc' = [pc EXCEPT ![r] = "splitting"]
  /\ UNCHANGED <<chunkProgress, aborted, chunks, idx, finalTranscript, outcome, recog,
                 audio, recResult, nResults, segLog, cancelPhase,
                 published>>

\* lines 140-157: createAudioChunks resolved
ChunksCreated(r) ==
  /\ pc[r] = "splitting"
  /\ LoopHead(r, 0, EmptyStr, transcript,
              createAudioChunks(file[r].length, file[r].sampleRate), recog)
  /\ UNCHANGED segLog

\* lines 26-27 and 209-217: decodeAudioData rejected
ChunksFailed(r) ==
  /\ pc[r] = "splitting"
  /\ pc' = [pc EXCEPT ![r] = "failed"]
  /\ outcome' = [outcome EXCEPT ![r] = Thrown("Unable to decode audio data")]
  /\ error' = "Unable to decode audio data"
  /\ isProcessing' = FALSE
  /\ chunkProgress' = <<>>
  /\ abortControllerRef' = 0
  /\ UNCHANGED <<transcript, aborted, chunks, idx, finalTranscript, recog, audio,
                 recResult, nResults, file, segLog, cancelPhase,
                 published>>

InFlight(r) == pc[r] = "transcribing"

\* lines 116-119: audio.play() resolved
PlayResolved(r) ==
  /\ InFlight(r) /\ audio[r] = "starting"
  /\ audio' = [audio EXCEPT ![r] = "playing"]
  /\ UNCHANGED <<hookVars, pc, chunks, idx, finalTranscript, outcome, recog, recResult,
                 nResults, file, segLog, cancelPhase,
                 published>>

\* line 120 and lines 179-185: audio.play() rejected, the call rejects while the
\* recognizer started at line 115 keeps running
PlayRejected(r) ==
  /\ InFlight(r) /\ audio[r] = "starting"
  /\ segLog' = [segLog EXCEPT ![r] = Append(@, [index |-> idx[r], failed |-> TRUE,
                                                 text |-> EmptyStr])]
  /\ LoopHead(r, idx[r] + 1, finalTranscript[r], transcript, chunks[r], recog)

\* lines 117-119: the chunk's audio played to its end, recognition.stop()
AudioEnded(r) ==
  /\ InFlight(r) /\ audio[r] = "playing"
  /\ audio' = [audio EXCEPT ![r] = "ended"]
  /\ recog' = [recog EXCEPT ![r][idx[r]] = IF @ = "active" THEN "stopping" ELSE @]
  /\ UNCHANGED <<hookVars, pc, chunks, idx, finalTranscript, outcome, recResult,
                 nResults, file, segLog, cancelPhase,
                 published>>

Live(st) == st \in {"active", "stopping"}

\* lines 96-102: a final result for the call in flight
OnResult(r, w) ==
  /\ InFlight(r) /\ Live(recog[r][idx[r]])
  /\ nResults[r] < MaxResults
  /\ recResult' = [recResult EXCEPT ![r] = Concat(Concat(@, <<w>>), <<"", "">>)]
  /\ nResults' = [nResults EXCEPT ![r] = @ + 1]
  /\ UNCHANGED <<hookVars, pc, chunks, idx, finalTranscript, outcome, recog, audio,
                 file, segLog, cancelPhase,
                 published>>

Current(r, k) == InFlight(r) /\ idx[r] = k

\* lines 104-107 and 179-185: the recognizer of chunk k reports an error; the
\* session is over, and the end event that follows finds the promise settled
OnError(r, k) ==
  /\ Live(recog[r][k])
  /\ IF Current(r, k)
     THEN /\ segLog' = [segLog EXCEPT ![r] = Append(@, [index |-> k, failed |-> TRUE,
                                                        text |-> EmptyStr])]
          /\ LoopHead(r, k + 1, finalTranscript[r], transcript, chunks[r],
                      [recog EXCEPT ![r][k] = "ended"])
     ELSE /\ recog' = [recog EXCEPT ![r][k] = "ended"]
          /\ UNCHANGED <<hookVars, pc, chunks, idx, finalTranscript, outcome, audio,
                         recResult, nResults, file, segLog, cancelPhase,
                 published>>

\* lines 109-112 and 157-185: the recognizer of chunk k ends
OnEnd(r, k) ==
  /\ Live(recog[r][k])
  /\ IF Current(r, k)
     THEN LET chunkText == Trim(recResult[r])
              ft == Stitch(k, chunkText, finalTranscript[r])
          IN /\ segLog' = [segLog EXCEPT ![r] = Append(@, [index |-> k, failed |-> FALSE,
                                                           text |-> chunkText])]
             /\ LoopHead(r, k + 1, ft, Trim(ft), chunks[r],
                         [recog EXCEPT ![r][k] = "ended"])
     ELSE /\ recog' = [recog EXCEPT ![r][k] = "ended"]
          /\ UNCHANGED <<hookVars, pc, chunks, idx, finalTranscript, outcome, audio,
                         recResult, nResults, file, segLog, cancelPhase,
                 published>>

\* lines 220-226
stopTranscription ==
  /\ aborted' = IF abortControllerRef # 0
                THEN [aborted EXCEPT ![abortControllerRef] = TRUE] ELSE aborted
  /\ cancelPhase' = IF abortControllerRef # 0 /\ ~aborted[abortControllerRef]
                    THEN [cancelPhase EXCEPT ![abortControllerRef] = pc[abortControllerRef]]
                    ELSE cancelPhase
  /\ isProcessing' = FALSE
  /\ chunkProgress' = <<>>
  /\ UNCHANGED <<transcript, error, abortControllerRef, pc, chunks, idx, finalTranscript,
                 outcome, recog, audio, recResult, nResults, file, segLog,
                 published>>

\* lines 228-232
clearTranscript ==
  /\ transcript' = EmptyStr
  /\ error' = Null
  /\ chunkProgress' = <<>>
  /\ UNCHANGED <<isProcessing, abortControllerRef, aborted, runVars>>

ChunkedNext ==
  \/ \E r \in Runs : StartRun(r)
  \/ \E r \in Runs : ChunksCreated(r)
  \/ \E r \in Runs : ChunksFailed(r)
  \/ \E r \in Runs : PlayResolved(r)
  \/ \E r \in Runs : PlayRejected(r)
  \/ \E r \in Runs : AudioEnded(r)
  \/ \E r \in Runs, w \in Words : OnResult(r, w)
  \/ \E r \in Runs, k \in ChunkIdx : OnError(r, k)
  \/ \E r \in Runs, k \in ChunkIdx : OnEnd(r, k)
  \/ stopTranscription
  \/ clearTranscript

\* ------------------------------------------- LocalTranscriptionService
\* a TranscriptionProgress event; progress is the fraction num / den
ProgressEvent(status, num, den) == [status |-> status, num |-> num, den |-> den]

\* lines 106-110
ProcessingEvent == ProgressEvent("transcribing", 20, 1)

\* lines 191-195
SingleEvent == ProgressEvent("transcribing", 40, 1)

\* the event of chunk i with the fraction of the chunks after it
ChunkEvent_CountsDown(i, n) == ProgressEvent("transcribing", 80 * n - 40 * i, n)

\* lines 225-229: progress 40 + (i / chunks.length) * 40
ChunkEvent(i, n) == ProgressEvent("transcribing", 40 * n + 40 * i, n)

\* lines 130-134
CompletedEvent == ProgressEvent("completed", 100, 1)

\* lines 153-157
ErrorEvent == ProgressEvent("error", 0, 1)

\* lines 76-80
LoadedEvent == ProgressEvent("loading", 100, 1)

\* lines 41-45
LoadingEvent == ProgressEvent("loading", 10, 1)

Callers == 1..MaxCallers
Loading == {"loadWebgpu", "loadWasm"}

WhisperInit ==
  /\ whisperPipeline = Null
  /\ isModelLoading = FALSE
  /\ wpc = [c \in Callers |-> "idle"]
  /\ callKind = [c \in Callers |-> "none"]
  /\ initReturn = [c \in Callers |-> "none"]
  /\ nLoaded = 0
  /\ wProgress = [c \in Callers |-> <<>>]

\* the guard without its isModelLoading test
InitSkips_IgnoresLoading == whisperPipeline # Null

\* line 34: the guard of initializeWhisper
InitSkips == whisperPipeline # Null \/ isModelLoading

\* where the caller goes when its initializeWhisper call has returned normally:
\* initializeWhisper's own caller is done, transcribeAudio goes on to line 106
\* and awaits getAudioDuration (line 113)
AfterInit(kind) == IF kind = "init" THEN "done" ELSE "duration"

\* lines 31-38: initializeWhisper called directly
CallInitialize(c) ==
  /\ wpc[c] = "idle"
  /\ callKind' = [callKind EXCEPT ![c] = "init"]
  /\ IF InitSkips
     THEN /\ wpc' = [wpc EXCEPT ![c] = AfterInit("init")]
          /\ initReturn' = [initReturn EXCEPT ![c] =
                              IF whisperPipeline # Null THEN "reused" ELSE "skipped"]
          /\ UNCHANGED <<isModelLoading, wProgress>>
     ELSE /\ wpc' = [wpc EXCEPT ![c] = "loadWebgpu"]
          /\ isModelLoading' = TRUE
          /\ wProgress' = [wProgress EXCEPT ![c] = Append(@, LoadingEvent)]
          /\ UNCHANGED initReturn
  /\ UNCHANGED <<whisperPipeline, nLoaded>>

\* lines 91-113 with 31-38: transcribeAudio up to its first await
CallTranscribe(c) ==
  /\ wpc[c] = "idle"
  /\ callKind' = [callKind EXCEPT ![c] = "transcribe"]
  /\ IF whisperPipeline # Null
     THEN /\ wpc' = [wpc EXCEPT ![c] = AfterInit("transcribe")]
          /\ initReturn' = [initReturn EXCEPT ![c] = "reused"]
          /\ wProgress' = [wProgress EXCEPT ![c] = Append(@, ProcessingEvent)]
          /\ UNCHANGED isModelLoading
     ELSE IF InitSkips
     THEN /\ wpc' = [wpc EXCEPT ![c] = AfterInit("transcribe")]
          /\ initReturn' = [initReturn EXCEPT ![c] = "skipped"]
          /\ wProgress' = [wProgress EXCEPT ![c] = Append(@, ProcessingEvent)]
          /\ UNCHANGED isModelLoading
     ELSE /\ wpc' = [wpc EXCEPT ![c] = "loadWebgpu"]
          /\ isModelLoading' = TRUE
          /\ wProgress' = [wProgress EXCEPT ![c] = Append(@, LoadingEvent)]
          /\ UNCHANGED initReturn
  /\ UNCHANGED <<whisperPipeline, nLoaded>>

\* lines 53-61, 76-80, 86-88 and 106-110: a pipeline() call resolved
Loaded(c, device) ==
  /\ whisperPipeline' = device
  /\ nLoaded' = nLoaded + 1
  /\ isModelLoading' = FALSE
  /\ initReturn' = [initReturn EXCEPT ![c] = "loaded"]
  /\ wpc' = [wpc EXCEPT ![c] = AfterInit(callKind[c])]
  /\ wProgress' = [wProgress EXCEPT ![c] =
                     Append(@, LoadedEvent)
                       \o (IF callKind[c] = "transcribe" THEN <<ProcessingEvent>> ELSE <<>>)]
  /\ UNCHANGED callKind

WebgpuLoaded(c) == wpc[c] = "loadWebgpu" /\ Loaded(c, "webgpu")

\* lines 62-71: the WebGPU load rejected, fall back to WASM
WebgpuFailed(c) ==
  /\ wpc[c] = "loadWebgpu"
  /\ wpc' = [wpc EXCEPT ![c] = "loadWasm"]
  /\ UNCHANGED <<whisperPipeline, isModelLoading, callKind, initReturn, nLoaded, wProgress>>

WasmLoaded(c) == wpc[c] = "loadWasm" /\ Loaded(c, "wasm")

\* the failure path without the reset of isModelLoading
WasmFailed_KeepsLoading(c) ==
  /\ wpc[c] = "loadWasm"
  /\ initReturn' = [initReturn EXCEPT ![c] = "threw"]
  /\ wpc' = [wpc EXCEPT ![c] = "error"]
  /\ wProgress' = [wProgress EXCEPT ![c] =
                     IF callKind[c] = "transcribe" THEN Append(@, ErrorEvent) ELSE @]
  /\ UNCHANGED <<whisperPipeline, isModelLoading, callKind, nLoaded>>

\* lines 82-88 and 150-163: the WASM load rejected too, initializeWhisper throws
WasmFailed(c) ==
  /\ wpc[c] = "loadWasm"
  /\ isModelLoading' = FALSE
  /\ initReturn' = [initReturn EXCEPT ![c] = "threw"]
  /\ wpc' = [wpc EXCEPT ![c] = "error"]
  /\ wProgress' = [wProgress EXCEPT ![c] =
                     IF callKind[c] = "transcribe" THEN Append(@, ErrorEvent) ELSE @]
  /\ UNCHANGED <<whisperPipeline, callKind, nLoaded>>

\* lines 113-124, 186-204 and 150-163: the duration is known (a file of at most
\* 180 s), transcribeSingle publishes its event and calls this.whisperPipeline(...),
\* a TypeError while it is null
DurationKnown(c) ==
  /\ wpc[c] = "duration"
  /\ wpc' = [wpc EXCEPT ![c] = IF whisperPipeline = Null THEN "error" ELSE "inference"]
  /\ wProgress' = [wProgress EXCEPT ![c] =
                     Append(@, SingleEvent)
                       \o (IF whisperPipeline = Null THEN <<ErrorEvent>> ELSE <<>>)]
  /\ UNCHANGED <<whisperPipeline, isModelLoading, callKind, initReturn, nLoaded>>

\* lines 167-184 and 150-163: getAudioDuration rejected
DurationFailed(c) ==
  /\ wpc[c] = "duration"
  /\ wpc' = [wpc EXCEPT ![c] = "error"]
  /\ wProgress' = [wProgress EXCEPT ![c] = Append(@, ErrorEvent)]
  /\ UNCHANGED <<whisperPipeline, isModelLoading, callKind, initReturn, nLoaded>>

\* lines 200-212 and 126-148: the pipeline call resolved
InferenceDone(c) ==
  /\ wpc[c] = "inference"
  /\ wpc' = [wpc EXCEPT ![c] = "done"]
  /\ wProgress' = [wProgress EXCEPT ![c] = Append(@, CompletedEvent)]
  /\ UNCHANGED <<whisperPipeline, isModelLoading, callKind, initReturn, nLoaded>>

\* lines 200-212 and 150-163: the pipeline call rejected
InferenceFailed(c) ==
  /\ wpc[c] = "inference"
  /\ wpc' = [wpc EXCEPT ![c] = "error"]
  /\ wProgress' = [wProgress EXCEPT ![c] = Append(@, ErrorEvent)]
  /\ UNCHANGED <<whisperPipeline, isModelLoading, callKind, initReturn, nLoaded>>

WhisperNext ==
  \/ \E c \in Callers : CallInitialize(c)
  \/ \E c \in Callers : CallTranscribe(c)
  \/ \E c \in Callers : WebgpuLoaded(c)
  \/ \E c \in Callers : WebgpuFailed(c)
  \/ \E c \in Callers : WasmLoaded(c)
  \/ \E c \in Callers : WasmFailed(c)
  \/ \E c \in Callers : DurationKnown(c)
  \/ \E c \in Callers : DurationFailed(c)
  \/ \E c \in Callers : InferenceDone(c)
  \/ \E c \in Callers : InferenceFailed(c)

\* ------------------------------------------------------------ the slicers
SampleRates == {1, 2}

\* the calls: createAudioChunks has no duration parameter; the other two take
\* one, and the program passes MAX_AUDIO_DURATION (Index.tsx) and 120
SliceCalls ==
  {[fn |-> "createAudioChunks", total |-> d, rate |-> r, dur |-> CHUNK_DURATION] :
     d \in 1..MaxSamples, r \in SampleRates}
  \cup {[fn |-> f, total |-> d, rate |-> r, dur |-> sd] :
          f \in {"splitAudioFile", "splitAudioIntoChunks"},
          d \in 1..MaxSamples, r \in SampleRates, sd \in (-1)..MaxSegDur}
  \cup {[fn |-> "splitAudioFile", total |-> d, rate |-> 1, dur |-> MAX_AUDIO_DURATION] :
          d \in {181, 360, 361}}
  \cup {[fn |-> "splitAudioIntoChunks", total |-> d, rate |-> 1, dur |-> LOCAL_CHUNK_SECONDS] :
          d \in {181, 600, 601}}

ChunkSamples(call) == call.dur * call.rate
OverlapSamples(call) ==
  IF call.fn = "createAudioChunks" THEN OVERLAP_DURATION * call.rate ELSE 0

\* the increment with the overlap added instead of subtracted
StepSamples_AddsOverlap(call) == ChunkSamples(call) + OverlapSamples(call)

\* the increment of start: `start += chunkSamples - overlapSamples` in
\* createAudioChunks, `start += chunkSamples` in the other two
StepSamples(call) == ChunkSamples(call) - OverlapSamples(call)

\* the slicer has not been called
SliceIdle ==
  /\ sliceCall = [fn |-> "none", total |-> 0, rate |-> 1, dur |-> 0]
  /\ slicePc = "idle"
  /\ decoded = FALSE
  /\ sliceStart = 0
  /\ sliceOut = <<>>

\* the slicer was called and awaits file.arrayBuffer()
SliceInit ==
  /\ sliceCall \in SliceCalls
  /\ slicePc = "called"
  /\ decoded = FALSE
  /\ sliceStart = 0
  /\ sliceOut = <<>>

\* decodeAudioData resolved; the loop starts at 0
Decoded ==
  /\ slicePc = "called"
  /\ slicePc' = "slicing"
  /\ decoded' = TRUE
  /\ sliceStart' = 0
  /\ UNCHANGED <<sliceCall, sliceOut>>

\* decodeAudioData rejected
DecodeFailed ==
  /\ slicePc = "called"
  /\ slicePc' = "rejected"
  /\ UNCHANGED <<sliceCall, decoded, sliceStart, sliceOut>>

\* one iteration of the loop; createBuffer throws NotSupportedError for a
\* length that is not positive
SliceIteration ==
  /\ slicePc = "slicing"
  /\ sliceStart < sliceCall.total
  /\ LET w == ChunkWindow(sliceStart, sliceCall.total, ChunkSamples(sliceCall))
     IN IF w.end - w.start <= 0
        THEN /\ slicePc' = "rejected"
             /\ UNCHANGED <<sliceStart, sliceOut>>
        ELSE /\ sliceOut' = Append(sliceOut, w)
             /\ sliceStart' = sliceStart + StepSamples(sliceCall)
             /\ UNCHANGED slicePc
  /\ UNCHANGED <<sliceCall, decoded>>

\* the loop condition fails: close the context and return the chunks
SliceReturn ==
  /\ slicePc = "slicing"
  /\ ~(sliceStart < sliceCall.total)
  /\ slicePc' = "resolved"
  /\ UNCHANGED <<sliceCall, decoded, sliceStart, sliceOut>>

SliceNext == Decoded \/ DecodeFailed \/ SliceIteration \/ SliceReturn

\* ----------------------------------------------------------------- lexemes
Whitespace == {" ", "\n", "\n\n"}
Delimiters == {".", "!", "?"}
IsWs(x) == x \in Whitespace

\* the words that occur in the texts below
Long == "anticonstitucionalmente"
Vocabulary ==
  {"a", "b", "e", "Bom", "bom", "Introdução", "Portanto", "segundo", "disse", "que", "muito",
   Long}

\* the words of the markup that the service adds
MarkupWords == {"Parte", "[Erro", "na", "transcrição", "desta", "parte]", "[Sem", "conteúdo",
                "transcrito]"}

\* the words whose first character is in [A-ZÁÀÂÃÉÊÍÓÔÕÚÇ]
UpperInitial == {"Bom", "Introdução", "Portanto", "Parte"}

\* the words whose last character is in [a-z], and in [a-záàâãéêíóôõúç]
AsciiLowerFinal == Vocabulary \cup (MarkupWords \ {"parte]", "transcrito]"})
LowerFinal == AsciiLowerFinal

\* s.toLowerCase() of a word
ToLowerCase(w) ==
  CASE w = "Bom" -> "bom"
    [] w = "Introdução" -> "introdução"
    [] w = "Portanto" -> "portanto"
    [] w = "Parte" -> "parte"
    [] w = "[Erro" -> "[erro"
    [] w = "[Sem" -> "[sem"
    [] OTHER -> w

\* the character U+2022 that opens a list item
Bullet == "(bullet)"

\* the number of characters of a lexeme
CharLen(x) ==
  CASE x \in {"a", "b", "e", " ", "\n", ".", "!", "?", ",", "#", "\"", "*", Bullet} -> 1
    [] x \in {"\n\n", "##", "**"} -> 2
    [] x \in {"Bom", "bom", "que"} -> 3
    [] x \in {"disse", "muito"} -> 5
    [] x = "segundo" -> 7
    [] x \in {"Portanto", "portanto"} -> 8
    [] x = "Introdução" -> 10
    [] x = Long -> 23

RECURSIVE LexTrimLeft(_)
LexTrimLeft(t) == IF t # <<>> /\ IsWs(Head(t)) THEN LexTrimLeft(Tail(t)) ELSE t

RECURSIVE LexTrimRight(_)
LexTrimRight(t) ==
  IF t # <<>> /\ IsWs(t[Len(t)]) THEN LexTrimRight(SubSeq(t, 1, Len(t) - 1)) ELSE t

\* s.trim()
LexTrim(t) == LexTrimRight(LexTrimLeft(t))

\* the length of the white-space run a text starts with
WsRunLen(t) == Len(t) - Len(LexTrimLeft(t))

\* s.split(/\s+/).filter(word => word.length > 0).length
LexWordCount(t) ==
  Cardinality({p \in 1..Len(t) : ~IsWs(t[p]) /\ (p = 1 \/ IsWs(t[p - 1]))})

\* a.join(sep) of an array of texts
RECURSIVE JoinWith(_, _)
JoinWith(a, sep) ==
  IF a = <<>> THEN <<>>
  ELSE IF Len(a) = 1 THEN a[1]
  ELSE a[1] \o sep \o JoinWith(Tail(a), sep)

\* s.split(/[.!?]+/): the pieces between the runs of delimiters
RECURSIVE SplitOnDelimiters(_, _, _)
SplitOnDelimiters(t, piece, acc) ==
  IF t = <<>> THEN Append(acc, piece)
  ELSE IF Head(t) \in Delimiters
       THEN IF Len(t) > 1 /\ t[2] \in Delimiters
            THEN SplitOnDelimiters(Tail(t), piece, acc)
            ELSE SplitOnDelimiters(Tail(t), <<>>, Append(acc, piece))
       ELSE SplitOnDelimiters(Tail(t), Append(piece, Head(t)), acc)

NonBlank(s) == LexTrim(s) # <<>>

\* text.split(/[.!?]+/).filter(s => s.trim().length > 0): the pieces are not trimmed
SplitSentences(t) == SelectSeq(SplitOnDelimiters(t, <<>>, <<>>), NonBlank)

\* replace(/([x])\s+([A-ZÁÀÂÃÉÊÍÓÔÕÚÇ])/g, '$1. $2') for the class x of final characters
RECURSIVE PeriodBeforeCapital(_, _)
PeriodBeforeCapital(t, lowerFinal) ==
  IF t = <<>> THEN <<>>
  ELSE IF Head(t) \in lowerFinal /\ Len(t) > 1 /\ IsWs(t[2])
       THEN LET n == WsRunLen(Tail(t))
                after == SubSeq(t, n + 2, Len(t))
            IN IF after # <<>> /\ after[1] \in UpperInitial
               THEN <<Head(t), ".", " ">> \o PeriodBeforeCapital(after, lowerFinal)
               ELSE SubSeq(t, 1, n + 1) \o PeriodBeforeCapital(after, lowerFinal)
       ELSE <<Head(t)>> \o PeriodBeforeCapital(Tail(t), lowerFinal)

\* replace(/\s+(w1|w2|...)\s+/g, ', $1 ') for the words ws
RECURSIVE CommaBefore(_, _)
CommaBefore(t, ws) ==
  IF t = <<>> THEN <<>>
  ELSE IF IsWs(Head(t))
       THEN LET n == WsRunLen(t)
                rest == SubSeq(t, n + 1, Len(t))
            IN IF Len(rest) > 1 /\ rest[1] \in ws /\ IsWs(rest[2])
               THEN <<",", " ", rest[1], " ">>
                      \o CommaBefore(SubSeq(rest, WsRunLen(Tail(rest)) + 2, Len(rest)), ws)
               ELSE SubSeq(t, 1, n) \o CommaBefore(rest, ws)
       ELSE <<Head(t)>> \o CommaBefore(Tail(t), ws)

\* ------------------------------- LocalTranscriptionService.transcribeAudio
\* one call of transcribeAudio, made when the model is loaded
VARIABLES
  tpc,                 \* position of the call
  audioFile,           \* its audio file: the duration in seconds, 0 before the call
  audioDuration,       \* the local audioDuration, 0 until getAudioDuration resolved
  tChunks,             \* the chunks of transcribeInChunks: [startTime, window]
  tIdx,                \* its loop variable i
  fullText,            \* its local fullText
  tResult,             \* what transcribeAudio returned: [text, wordCount]
  tPath,               \* which of transcribeSingle and transcribeInChunks was entered
  tSplits,             \* number of splitAudioIntoChunks calls made
  tLog,                \* the settled chunk calls, in order: [index, failed, text]
  tProgress            \* the events passed to onProgress, in order

transcribeVars ==
  <<tpc, audioFile, audioDuration, tChunks, tIdx, fullText, tResult, tPath, tSplits, tLog,
    tProgress>>

LONG_AUDIO_SECONDS == 180

\* durations on both sides of the threshold; 181 s gives 2 chunks, 241 s gives 3
AudioDurations == {179, 180, 181, 241}

\* result.text of the pipeline: nothing, " a", "a e b", "b Bom"
WhisperTexts == {<<>>, <<" ", "a">>, <<"a", " ", "e", " ", "b">>, <<"b", " ", "Bom">>}

TranscribeIdle ==
  /\ tpc = "idle"
  /\ audioFile = 0
  /\ audioDuration = 0
  /\ tChunks = <<>>
  /\ tIdx = 0
  /\ fullText = <<>>
  /\ tResult = [text |-> <<>>, wordCount |-> 0]
  /\ tPath = "none"
  /\ tSplits = 0
  /\ tLog = <<>>
  /\ tProgress = <<>>

\* the state a completed initializeWhisper leaves
WhisperLoaded ==
  /\ whisperPipeline \in {"webgpu", "wasm"}
  /\ isModelLoading = FALSE
  /\ wpc = [c \in Callers |-> "idle"]
  /\ callKind = [c \in Callers |-> "none"]
  /\ initReturn = [c \in Callers |-> "none"]
  /\ nLoaded = 1
  /\ wProgress = [c \in Callers |-> <<>>]

\* the threshold test with >= for >
LongAudio_AtThreshold(duration) == duration >= LONG_AUDIO_SECONDS

\* line 118: the chunking decision
LongAudio(duration) == duration > LONG_AUDIO_SECONDS

\* lines 259-304 at one sample per second
splitAudioIntoChunks(totalSamples, chunkDurationSeconds) ==
  LET windows == SliceLoop(0, totalSamples, chunkDurationSeconds, chunkDurationSeconds, <<>>)
  IN [k \in 1..Len(windows) |->
        [startTime |-> (k - 1) * chunkDurationSeconds, window |-> windows[k]]]

\* lines 375-379
formatTime(seconds) ==
  LET secs == seconds % 60
  IN ToString(seconds \div 60) \o ":" \o (IF secs < 10 THEN "0" ELSE "") \o ToString(secs)

\* `## Parte ${chunkNumber} (${this.formatTime(startTime)})`
PartHeader(chunkNumber, startTime) ==
  <<"##", " ", "Parte", " ", ToString(chunkNumber), " ", "(" \o formatTime(startTime) \o ")">>

\* lines 381-393
LocalAddPunctuation(text) ==
  LET formatted == CommaBefore(PeriodBeforeCapital(text, LowerFinal),
                               {"mas", "porém", "contudo", "e", "ou"})
  IN IF formatted # <<>> /\ formatted[Len(formatted)] \in Delimiters
     THEN formatted ELSE Append(formatted, ".")

\* lines 366-373
formatChunkText(text, chunkNumber, startTime) ==
  IF LexTrim(text) = <<>>
  THEN <<"\n\n">> \o PartHeader(chunkNumber, startTime)
         \o <<"\n", "[Sem", " ", "conteúdo", " ", "transcrito]", "\n\n">>
  ELSE <<"\n\n">> \o PartHeader(chunkNumber, startTime) \o <<"\n\n">>
         \o LocalAddPunctuation(LexTrim(text)) \o <<"\n\n">>

\* line 249: what a failed chunk adds
ChunkErrorPlaceholder == <<"[Erro", " ", "na", " ", "transcrição", " ", "desta", " ", "parte]">>

ChunkErrorText(chunkNumber, startTime) ==
  <<"\n\n">> \o PartHeader(chunkNumber, startTime) \o <<"\n">> \o ChunkErrorPlaceholder
    \o <<"\n\n">>

\* line 419: the one-word entries of topicWords; the other three are phrases of
\* words that the texts here do not contain
TopicWords == {"então", "agora", "depois"}

\* lines 416-421; next is <<>> for undefined
LocalIsTopicChange(current, next) ==
  IF next = <<>> THEN TRUE
  ELSE \E p \in 1..Len(next) : ToLowerCase(next[p]) \in TopicWords

\* lines 400-407: the forEach over the sentences from the one at position index
RECURSIVE ParagraphLoop(_, _, _, _)
ParagraphLoop(sentences, index, currentParagraph, paragraphs) ==
  IF index > Len(sentences)
  THEN IF currentParagraph # <<>>
       THEN Append(paragraphs, JoinWith(currentParagraph, <<".", " ">>) \o <<".">>)
       ELSE paragraphs
  ELSE LET pushed == Append(currentParagraph, LexTrim(sentences[index]))
           next == IF index < Len(sentences) THEN sentences[index + 1] ELSE <<>>
       IN IF Len(pushed) >= 3 \/ LocalIsTopicChange(sentences[index], next)
          THEN ParagraphLoop(sentences, index + 1, <<>>,
                             Append(paragraphs, JoinWith(pushed, <<".", " ">>) \o <<".">>))
          ELSE ParagraphLoop(sentences, index + 1, pushed, paragraphs)

\* lines 395-414
formatParagraphs(text) ==
  JoinWith(ParagraphLoop(SplitSentences(text), 1, <<>>, <<>>), <<"\n\n">>)

\* lines 352-364
structureTranscribedText(text) ==
  IF LexTrim(text) = <<>>
  THEN <<"Não foi possível extrair texto do áudio.">>
  ELSE formatParagraphs(LocalAddPunctuation(LexTrim(text)))

\* the overwrite of fullText in place of the append
AppendPart_Overwrites(text, part) == part

\* lines 245 and 249: fullText += part
AppendPart(text, part) == text \o part

\* lines 91-113: transcribeAudio up to `await this.getAudioDuration(audioFile)`;
\* with no pipeline it awaits initializeWhisper first
TranscribeCall ==
  /\ tpc = "idle"
  /\ \E d \in AudioDurations : audioFile' = d
  /\ tpc' = IF whisperPipeline = Null THEN "init" ELSE "duration"
  /\ tProgress' = IF whisperPipeline = Null THEN tProgress
                  ELSE Append(tProgress, ProcessingEvent)
  /\ UNCHANGED <<audioDuration, tChunks, tIdx, fullText, tResult, tPath, tSplits, tLog>>

\* lines 113-124, 186-204 and 215-220: the duration is known; transcribeSingle
\* awaits the pipeline, transcribeInChunks awaits splitAudioIntoChunks
AudioDurationKnown ==
  /\ tpc = "duration"
  /\ audioDuration' = audioFile
  /\ IF LongAudio(audioFile)
     THEN /\ tpc' = "splitting"
          /\ tPath' = "chunked"
          /\ tSplits' = tSplits + 1
          /\ UNCHANGED tProgress
     ELSE /\ tpc' = "single"
          /\ tPath' = "single"
          /\ tProgress' = Append(tProgress, SingleEvent)
          /\ UNCHANGED tSplits
  /\ UNCHANGED <<audioFile, tChunks, tIdx, fullText, tResult, tLog>>

\* lines 177-180 and 150-163: getAudioDuration rejected
AudioDurationFailed ==
  /\ tpc = "duration"
  /\ tpc' = "error"
  /\ tProgress' = Append(tProgress, ErrorEvent)
  /\ UNCHANGED <<audioFile, audioDuration, tChunks, tIdx, fullText, tResult, tPath, tSplits, tLog>>

\* lines 126-148: the result of transcribeAudio for the text of transcribeSingle
\* or transcribeInChunks
TranscribeReturn(text) ==
  /\ tpc' = "done"
  /\ tProgress' = Append(tProgress, CompletedEvent)
  /\ tResult' = [text |-> structureTranscribedText(text), wordCount |-> LexWordCount(text)]

\* lines 200-212 and 126-148: the pipeline resolved for the whole file
SingleTranscribed(text) ==
  /\ tpc = "single"
  /\ TranscribeReturn(text)
  /\ UNCHANGED <<audioFile, audioDuration, tChunks, tIdx, fullText, tPath, tSplits, tLog>>

\* lines 200-212 and 150-163: the pipeline rejected for the whole file
SingleFailed ==
  /\ tpc = "single"
  /\ tpc' = "error"
  /\ tProgress' = Append(tProgress, ErrorEvent)
  /\ UNCHANGED <<audioFile, audioDuration, tChunks, tIdx, fullText, tResult, tPath, tSplits, tLog>>

\* lines 220-232: splitAudioIntoChunks resolved, the loop starts with chunk 0 and
\* publishes its event
SplitResolved ==
  /\ tpc = "splitting"
  /\ tChunks' = splitAudioIntoChunks(audioFile, LOCAL_CHUNK_SECONDS)
  /\ tIdx' = 0
  /\ tpc' = "chunk"
  /\ tProgress' = Append(tProgress, ChunkEvent(0, Len(tChunks')))
  /\ UNCHANGED <<audioFile, audioDuration, fullText, tResult, tPath, tSplits, tLog>>

\* lines 262 and 150-163: decodeAudioData rejected
SplitRejected ==
  /\ tpc = "splitting"
  /\ tpc' = "error"
  /\ tProgress' = Append(tProgress, ErrorEvent)
  /\ UNCHANGED <<audioFile, audioDuration, tChunks, tIdx, fullText, tResult, tPath, tSplits, tLog>>

\* lines 224-256 and 126-148: chunk i has settled and left the text ft; the loop
\* goes on to the next chunk or transcribeInChunks returns
ChunkSettled(ft) ==
  /\ fullText' = ft
  /\ IF tIdx + 1 < Len(tChunks)
     THEN /\ tIdx' = tIdx + 1
          /\ tProgress' = Append(tProgress, ChunkEvent(tIdx + 1, Len(tChunks)))
          /\ UNCHANGED <<tpc, tResult>>
     ELSE /\ TranscribeReturn(ft)
          /\ UNCHANGED tIdx
  /\ UNCHANGED <<audioFile, audioDuration, tChunks, tPath, tSplits>>

\* lines 232-246: the pipeline resolved for chunk i
ChunkTranscribed(text) ==
  /\ tpc = "chunk"
  /\ tLog' = Append(tLog, [index |-> tIdx, failed |-> FALSE, text |-> text])
  /\ ChunkSettled(IF LexTrim(text) # <<>>
                  THEN AppendPart(fullText,
                                  formatChunkText(text, tIdx + 1, tChunks[tIdx + 1].startTime))
                  ELSE fullText)

\* lines 247-250: the pipeline rejected for chunk i
ChunkFailed ==
  /\ tpc = "chunk"
  /\ tLog' = Append(tLog, [index |-> tIdx, failed |-> TRUE, text |-> <<>>])
  /\ ChunkSettled(AppendPart(fullText,
                             ChunkErrorText(tIdx + 1, tChunks[tIdx + 1].startTime)))

TranscribeNext ==
  \/ TranscribeCall
  \/ AudioDurationKnown
  \/ AudioDurationFailed
  \/ \E text \in WhisperTexts : SingleTranscribed(text)
  \/ SingleFailed
  \/ SplitResolved
  \/ SplitRejected
  \/ \E text \in WhisperTexts : ChunkTranscribed(text)
  \/ ChunkFailed

\* ------------------------------------------------- the Index page
VARIABLES
  appState,            \* useState<AppState>('initial')
  selectedFile,        \* useState<File | null>(null): the duration in seconds, 0 is null
  needsSplitting,      \* useState(false)
  currentChunk,        \* useState(0)
  totalChunks,         \* useState(0)
  transcriptionResults,\* useState<string[]>([]): the number of texts
  pendingSelects,      \* the files whose handleFileSelect awaits getAudioDuration
  ppc,                 \* position of the processAudioChunks invocation
  runFile,             \* the selectedFile its closure holds
  pPath,               \* which branch of line 147 it took
  pSplits,             \* number of splitAudioFile calls it made
  pChunks,             \* chunks.length
  pIdx                 \* its loop variable i

pageVars ==
  <<appState, selectedFile, needsSplitting, currentChunk, totalChunks, transcriptionResults,
    pendingSelects, ppc, runFile, pPath, pSplits, pChunks, pIdx>>

\* durations on both sides of MAX_AUDIO_DURATION; 361 s gives 3 parts
PageDurations == {180, 181, 361}

\* how a transcribeAudio call of useIntelligentTranscription settles: completed
\* with text, completed without any, or rejected
CallOutcomes == {"text", "empty", "rejected"}

PageIdle ==
  /\ appState = "initial"
  /\ selectedFile = 0
  /\ needsSplitting = FALSE
  /\ currentChunk = 0
  /\ totalChunks = 0
  /\ transcriptionResults = 0
  /\ pendingSelects = {}
  /\ ppc = "idle"
  /\ runFile = 0
  /\ pPath = "none"
  /\ pSplits = 0
  /\ pChunks = 0
  /\ pIdx = 0

\* audioSplitter.ts lines 2-62 at one sample per second
splitAudioFile(totalSamples, maxDurationSeconds) ==
  SliceLoop(0, totalSamples, maxDurationSeconds, maxDurationSeconds, <<>>)

\* lines 77-101: handleFileSelect up to `await getAudioDuration(file)`; the
\* drop zone and the file input are used in the initial state
HandleFileSelect(d) ==
  /\ appState = "initial"
  /\ d \notin pendingSelects
  /\ pendingSelects' = pendingSelects \cup {d}
  /\ UNCHANGED <<appState, selectedFile, needsSplitting, currentChunk, totalChunks,
                 transcriptionResults, ppc, runFile, pPath, pSplits, pChunks, pIdx>>

\* lines 80-98: a file of another type or above 100MB
FileRejected ==
  /\ appState = "initial"
  /\ appState' = "error"
  /\ UNCHANGED <<selectedFile, needsSplitting, currentChunk, totalChunks,
                 transcriptionResults, pendingSelects, ppc, runFile, pPath, pSplits,
                 pChunks, pIdx>>

\* lines 101-124: the duration of file d is known
FileDurationLoaded(d) ==
  /\ d \in pendingSelects
  /\ pendingSelects' = pendingSelects \ {d}
  /\ selectedFile' = d
  /\ appState' = "uploading"
  /\ needsSplitting' = (d > MAX_AUDIO_DURATION)
  /\ totalChunks' = IF d > MAX_AUDIO_DURATION
                    THEN (d + MAX_AUDIO_DURATION - 1) \div MAX_AUDIO_DURATION
                    ELSE totalChunks
  /\ UNCHANGED <<currentChunk, transcriptionResults, ppc, runFile, pPath, pSplits,
                 pChunks, pIdx>>

\* lines 125-132: getAudioDuration rejected
FileDurationFailed(d) ==
  /\ d \in pendingSelects
  /\ pendingSelects' = pendingSelects \ {d}
  /\ appState' = "error"
  /\ UNCHANGED <<selectedFile, needsSplitting, currentChunk, totalChunks,
                 transcriptionResults, ppc, runFile, pPath, pSplits, pChunks, pIdx>>

\* lines 135-151 and 213-221: processAudioChunks up to its first await; its
\* button is shown in the uploading state. One invocation at a time is modelled.
ProcessAudioChunks ==
  /\ appState = "uploading" /\ selectedFile # 0
  /\ ppc \in {"idle", "finished"}
  /\ appState' = "processing"
  /\ transcriptionResults' = 0
  /\ runFile' = selectedFile
  /\ IF needsSplitting
     THEN ppc' = "splitting" /\ pPath' = "chunked" /\ pSplits' = 1
     ELSE ppc' = "single" /\ pPath' = "single" /\ pSplits' = 0
  /\ UNCHANGED <<selectedFile, needsSplitting, currentChunk, totalChunks, pendingSelects,
                 pChunks, pIdx>>

\* lines 151-168: splitAudioFile resolved, the loop starts with chunk 0
PageSplitResolved ==
  /\ ppc = "splitting"
  /\ pChunks' = Len(splitAudioFile(runFile, MAX_AUDIO_DURATION))
  /\ totalChunks' = pChunks'
  /\ currentChunk' = 1
  /\ pIdx' = 0
  /\ ppc' = "chunk"
  /\ UNCHANGED <<appState, selectedFile, needsSplitting, transcriptionResults,
                 pendingSelects, runFile, pPath, pSplits>>

\* lines 263-271: splitAudioFile rejected
PageSplitRejected ==
  /\ ppc = "splitting"
  /\ ppc' = "finished"
  /\ appState' = "error"
  /\ UNCHANGED <<selectedFile, needsSplitting, currentChunk, totalChunks,
                 transcriptionResults, pendingSelects, runFile, pPath, pSplits, pChunks,
                 pIdx>>

\* lines 157-168 and 209-211: the loop goes on to the next chunk or ends
PageLoopNext ==
  IF pIdx + 1 < pChunks
  THEN /\ pIdx' = pIdx + 1
       /\ currentChunk' = pIdx + 2
       /\ ppc' = "chunk"
       /\ UNCHANGED appState
  ELSE /\ appState' = "completed"
       /\ ppc' = "finished"
       /\ UNCHANGED <<pIdx, currentChunk>>

\* lines 168-208: the call for chunk i settled; a text is kept and followed by
\* the one-second pause, a rejection is caught
PageChunkSettled(kind) ==
  /\ ppc = "chunk"
  /\ IF kind = "rejected"
     THEN PageLoopNext /\ UNCHANGED transcriptionResults
     ELSE /\ transcriptionResults' = transcriptionResults + 1
          /\ ppc' = "delay"
          /\ UNCHANGED <<appState, pIdx, currentChunk>>
  /\ UNCHANGED <<selectedFile, needsSplitting, totalChunks, pendingSelects, runFile,
                 pPath, pSplits, pChunks>>

\* line 199: the pause is over
PageDelayElapsed ==
  /\ ppc = "delay"
  /\ PageLoopNext
  /\ UNCHANGED <<selectedFile, needsSplitting, totalChunks, transcriptionResults,
                 pendingSelects, runFile, pPath, pSplits, pChunks>>

\* lines 217-271: the call for the whole file settled
PageSingleSettled(kind) ==
  /\ ppc = "single"
  /\ ppc' = "finished"
  /\ appState' = IF kind = "text" THEN "completed" ELSE "error"
  /\ transcriptionResults' = IF kind = "text" THEN 1 ELSE transcriptionResults
  /\ UNCHANGED <<selectedFile, needsSplitting, currentChunk, totalChunks, pendingSelects,
                 runFile, pPath, pSplits, pChunks, pIdx>>

\* lines 274-289; its buttons are shown in the uploading state, in the completed
\* state when there are results, and in the error state
HandleNewTranscription ==
  /\ \/ appState \in {"uploading", "error"}
     \/ appState = "completed" /\ transcriptionResults > 0
  /\ selectedFile' = 0
  /\ transcriptionResults' = 0
  /\ appState' = "initial"
  /\ needsSplitting' = FALSE
  /\ currentChunk' = 0
  /\ totalChunks' = 0
  /\ UNCHANGED <<pendingSelects, ppc, runFile, pPath, pSplits, pChunks, pIdx>>

PageNext ==
  \/ \E d \in PageDurations : HandleFileSelect(d)
  \/ FileRejected
  \/ \E d \in PageDurations : FileDurationLoaded(d)
  \/ \E d \in PageDurations : FileDurationFailed(d)
  \/ ProcessAudioChunks
  \/ PageSplitResolved
  \/ PageSplitRejected
  \/ \E kind \in CallOutcomes : PageChunkSettled(kind)
  \/ PageDelayElapsed
  \/ \E kind \in CallOutcomes : PageSingleSettled(kind)
  \/ HandleNewTranscription

\* ------------------------------------ PortugueseProcessor.processTranscript
\* one call of processTranscript; detectStructure advances one sentence a step
VARIABLES
  nlpPc,               \* position of the call
  rawText,             \* the parameter rawText
  options,             \* the parameter options (dialect is never read)
  processedText,       \* the local processedText
  confidence,          \* the local confidence, in hundredths
  structure,           \* the local structure: the four counters
  sentences,           \* detectStructure: the local sentences
  sentI,               \* detectStructure: the loop variable i
  processedSentences,  \* detectStructure: the local processedSentences
  currentParagraph,    \* detectStructure: the local currentParagraph
  nlpResult,           \* the returned ProcessedTranscript
  classLog             \* per sentence handled: buffer before, elements pushed,
                       \* buffer after, counters after

nlpVars ==
  <<nlpPc, rawText, options, processedText, confidence, structure, sentences, sentI,
    processedSentences, currentParagraph, nlpResult, classLog>>

\* The confidence is counted in hundredths.  The doubles the code computes
\* (0.8, 0.8500000000000001, 0.9, 0.9000000000000001, 0.9500000000000001, 1.0)
\* are ordered as these integers are and none exceeds 1.0.
BASE_CONFIDENCE == 80
PUNCTUATION_INCREMENT == 10
STRUCTURE_INCREMENT == 5
FORMATTING_INCREMENT == 5
MAX_CONFIDENCE == 100
TITLE_MAX_LENGTH == 50
TITLE_MAX_WORDS == 6

\* the one-word entries of the word lists; the other entries are phrases whose
\* words do not occur in the texts here
TitleMarkers == {"capítulo", "secção", "parte", "título"}
TitleOpeners == {"introdução", "conclusão", "resumo", "abstract"}
EmphasisWords ==
  {"muito", "extremamente", "absolutamente", "completamente", "definitivamente",
   "certamente", "obviamente", "claramente"}
TransitionWords ==
  {"portanto", "contudo", "todavia", "entretanto", "assim", "consequentemente", "finalmente"}
QuoteIndicators == {"disse", "afirmou", "declarou", "mencionou", "referiu", "segundo", "conforme"}
ListOpeners == {"primeiro", "segundo", "terceiro", "depois", "finalmente"}
ListLetters == {"a", "b", "c", "d", "e"}
Subordinators == {"que", "quando", "onde", "como", "porque", "se"}
Adversatives == {"mas", "porém", "contudo", "todavia", "entretanto"}
Interrogatives == {"como", "quando", "onde", "quem", "que", "porquê", "quanto"}
Exclamatives == {"bom", "mau", "bonito", "feio", "interessante"}

\* the words made of characters of [a-záàâãéêíóôõúç] only
AllLower == Vocabulary \ UpperInitial

\* sentence.length
RECURSIVE SentenceLength(_)
SentenceLength(s) == IF s = <<>> THEN 0 ELSE CharLen(Head(s)) + SentenceLength(Tail(s))

\* sentence.split(' ').length
SpaceSplitCount(s) == Cardinality({p \in 1..Len(s) : s[p] = " "}) + 1

\* line 23: /^(capítulo|secção|parte|título)\s+\w+/i
TitlePattern1(s) ==
  /\ Len(s) >= 3
  /\ ToLowerCase(s[1]) \in TitleMarkers
  /\ IsWs(s[2])
  /\ s[WsRunLen(Tail(s)) + 2] \in Vocabulary

\* line 24: /^(introdução|conclusão|resumo|abstract)/i
TitlePattern2(s) == s # <<>> /\ ToLowerCase(s[1]) \in TitleOpeners

\* line 25: /^[A-ZÁÀÂÃÉÊÍÓÔÕÚÇ][a-záàâãéêíóôõúç\s]{2,30}$/
TitlePattern3(s) ==
  /\ s # <<>>
  /\ s[1] \in UpperInitial
  /\ \A p \in 2..Len(s) : s[p] \in AllLower \/ IsWs(s[p])
  /\ SentenceLength(s) - 1 >= 2
  /\ SentenceLength(s) - 1 <= 30

\* this.titlePatterns.some(pattern => pattern.test(sentence))
MatchesTitlePattern(s) == TitlePattern1(s) \/ TitlePattern2(s) \/ TitlePattern3(s)

\* lines 193-196
isTitle(sentence) ==
  \/ MatchesTitlePattern(sentence)
  \/ SentenceLength(sentence) < TITLE_MAX_LENGTH /\ SpaceSplitCount(sentence) <= TITLE_MAX_WORDS

\* lines 198-202; no text here has a digit
isList(sentence) ==
  /\ sentence # <<>>
  /\ \/ ToLowerCase(sentence[1]) \in ListOpeners
     \/ sentence[1] \in ListLetters /\ Len(sentence) > 1 /\ IsWs(sentence[2])

\* lines 204-208
isQuote(sentence) == \E p \in 1..Len(sentence) : ToLowerCase(sentence[p]) \in QuoteIndicators

\* lines 210-216: next is <<>> for undefined; it is the element of the split,
\* not trimmed
isTopicChange(current, next) ==
  IF next = <<>> THEN FALSE ELSE ToLowerCase(next[1]) \in TransitionWords

\* the list test made before the title test
Classify_ListFirst(sentence) ==
  IF isList(sentence) THEN "list"
  ELSE IF isTitle(sentence) THEN "heading"
  ELSE IF isQuote(sentence) THEN "quote"
  ELSE "regular"

\* lines 113, 131, 143 and 155: the branch taken for a sentence
Classify(sentence) ==
  IF isTitle(sentence) THEN "heading"
  ELSE IF isList(sentence) THEN "list"
  ELSE IF isQuote(sentence) THEN "quote"
  ELSE "regular"

\* every heading emitted at the second level
HeadingLine_SecondLevel(sentence) == <<"##", " ">> \o sentence

\* lines 120-126
HeadingLine(sentence) ==
  IF SentenceLength(sentence) < TITLE_MAX_LENGTH /\ MatchesTitlePattern(sentence)
  THEN <<"#", " ">> \o sentence
  ELSE <<"##", " ">> \o sentence

\* lines 121-124, 137 and 149: the element pushed for a sentence that is not regular
EmittedLine(kind, sentence) ==
  CASE kind = "heading" -> HeadingLine(sentence)
    [] kind = "list" -> <<Bullet, " ">> \o sentence
    [] kind = "quote" -> <<"\"">> \o sentence \o <<"\"">>

\* only the first sentence of the buffer written out
Paragraph_FirstOnly(paragraph) == paragraph[1] \o <<".">>

\* currentParagraph.join('. ') + '.'
Paragraph(paragraph) == JoinWith(paragraph, <<".", " ">>) \o <<".">>

\* line 92: the '?' put at the end of a text whose last delimiter-free stretch
\* has an interrogative word followed by white space
QuestionMark(t) ==
  IF \E p \in 1..(Len(t) - 1) :
       /\ ToLowerCase(t[p]) \in Interrogatives
       /\ IsWs(t[p + 1])
       /\ \A q \in (p + 2)..Len(t) : t[q] \notin Delimiters
  THEN Append(t, "?") ELSE t

\* line 97: replace(/\b(que\s+(bom|mau|...))\b/gi, '$1!')
RECURSIVE Exclamation(_)
Exclamation(t) ==
  IF t = <<>> THEN <<>>
  ELSE IF ToLowerCase(Head(t)) = "que" /\ Len(t) > 1 /\ IsWs(t[2])
       THEN LET n == WsRunLen(Tail(t))
            IN IF n + 2 <= Len(t) /\ ToLowerCase(t[n + 2]) \in Exclamatives
               THEN SubSeq(t, 1, n + 2) \o <<"!">> \o Exclamation(SubSeq(t, n + 3, Len(t)))
               ELSE <<Head(t)>> \o Exclamation(Tail(t))
       ELSE <<Head(t)>> \o Exclamation(Tail(t))

\* lines 78-100
addPunctuation(text) ==
  Exclamation(QuestionMark(PeriodBeforeCapital(
    CommaBefore(CommaBefore(text, Subordinators), Adversatives), AsciiLowerFinal)))

\* lines 179-188 for one lexeme: new RegExp(`\\b${word}\\b`, 'gi')
FormatLexeme(x) ==
  IF ToLowerCase(x) \in EmphasisWords THEN <<"**", ToLowerCase(x), "**">>
  ELSE IF ToLowerCase(x) \in TransitionWords THEN <<"*", ToLowerCase(x), "*">>
  ELSE <<x>>

\* lines 175-191
RECURSIVE applyFormatting(_)
applyFormatting(text) ==
  IF text = <<>> THEN <<>> ELSE FormatLexeme(Head(text)) \o applyFormatting(Tail(text))

\* confidence -= increment
AddConfidence_Subtracts(c, increment) == c - increment

\* lines 58, 63 and 68: confidence += increment
AddConfidence(c, increment) == c + increment

\* lines 56, 61 and 66: the tests of the options
RunsPunctuation(opts) == opts.enablePunctuation
RunsFormatting(opts) == opts.enableFormatting

\* the structure pass run whatever the option says
RunsStructure_Always(opts) == TRUE

RunsStructure(opts) == opts.enableStructure

\* lines 46-73: the confidence processTranscript returns for the options opts
ConfidenceOf(opts) ==
  LET c1 == IF RunsPunctuation(opts)
            THEN AddConfidence(BASE_CONFIDENCE, PUNCTUATION_INCREMENT) ELSE BASE_CONFIDENCE
      c2 == IF RunsStructure(opts) THEN AddConfidence(c1, STRUCTURE_INCREMENT) ELSE c1
      c3 == IF RunsFormatting(opts) THEN AddConfidence(c2, FORMATTING_INCREMENT) ELSE c2
  IN Min(c3, MAX_CONFIDENCE)

NoCounters == [paragraphs |-> 0, headings |-> 0, lists |-> 0, quotes |-> 0]

Options ==
  [enablePunctuation : BOOLEAN, enableStructure : BOOLEAN, enableFormatting : BOOLEAN]

\* sentences of a transcript: a title word, a long plain sentence, one that
\* opens with a transition word, and sentences that pass several of the tests
Plain == <<Long, " ", Long, " ", Long>>
SentencePool ==
  { <<"Introdução">>,
    Plain,
    <<"Portanto", " ">> \o Plain,
    <<"segundo">>,
    <<"segundo", " ">> \o Plain,
    <<Long, " ", "disse", " ", "muito", " ", Long, " ", Long>>,
    <<"a", " ">> \o Plain,
    <<"Bom", " ", "que", " ", "bom">>,
    <<"Introdução", " ", Long, " ", Long>> }

\* what separates the sentences of a transcript: ". ", "." or only a space
Separators == {<<".", " ">>, <<".">>, <<" ">>}

TextOf(ss, sep) == JoinWith(ss, sep) \o (IF sep = <<" ">> THEN <<>> ELSE <<".">>)

RawTexts ==
  {<<>>} \cup
  {TextOf(ss, sep) : ss \in UNION {[1..n -> SentencePool] : n \in 1..MaxSentences},
                     sep \in Separators}

NlpIdle ==
  /\ nlpPc = "idle"
  /\ rawText = <<>>
  /\ options = [enablePunctuation |-> FALSE, enableStructure |-> FALSE,
                enableFormatting |-> FALSE]
  /\ processedText = <<>>
  /\ confidence = 0
  /\ structure = NoCounters
  /\ sentences = <<>>
  /\ sentI = 0
  /\ processedSentences = <<>>
  /\ currentParagraph = <<>>
  /\ nlpResult = [text |-> <<>>, confidence |-> 0, structure |-> NoCounters]
  /\ classLog = <<>>

\* lines 44-53
ProcessCall ==
  /\ nlpPc = "idle"
  /\ \E text \in RawTexts : rawText' = text /\ processedText' = text
  /\ \E opts \in Options : options' = opts
  /\ confidence' = BASE_CONFIDENCE
  /\ structure' = NoCounters
  /\ nlpPc' = "punctuation"
  /\ UNCHANGED <<sentences, sentI, processedSentences, currentParagraph, nlpResult, classLog>>

\* lines 56-59
PunctuationPass ==
  /\ nlpPc = "punctuation"
  /\ IF RunsPunctuation(options)
     THEN /\ processedText' = addPunctuation(processedText)
          /\ confidence' = AddConfidence(confidence, PUNCTUATION_INCREMENT)
     ELSE UNCHANGED <<processedText, confidence>>
  /\ nlpPc' = "structure"
  /\ UNCHANGED <<rawText, options, structure, sentences, sentI, processedSentences,
                 currentParagraph, nlpResult, classLog>>

\* lines 61-62 and 102-109: detectStructure is entered, or skipped
StructureStart ==
  /\ nlpPc = "structure"
  /\ IF RunsStructure(options)
     THEN /\ sentences' = SplitSentences(processedText)
          /\ nlpPc' = "loop"
     ELSE /\ nlpPc' = "formatting"
          /\ UNCHANGED sentences
  /\ UNCHANGED <<rawText, options, processedText, confidence, structure, sentI,
                 processedSentences, currentParagraph, nlpResult, classLog>>

\* lines 109-164: one iteration of the loop
StructureIteration ==
  /\ nlpPc = "loop"
  /\ sentI < Len(sentences)
  /\ LET sentence == LexTrim(sentences[sentI + 1])
         next == IF sentI + 2 <= Len(sentences) THEN sentences[sentI + 2] ELSE <<>>
         kind == Classify(sentence)
         flush == currentParagraph # <<>>
         flushed == IF flush THEN Append(processedSentences, Paragraph(currentParagraph))
                    ELSE processedSentences
         pushed == Append(currentParagraph, sentence)
     IN /\ IF kind # "regular"
           THEN /\ processedSentences' = Append(flushed, EmittedLine(kind, sentence))
                /\ currentParagraph' = <<>>
                /\ structure' =
                     [paragraphs |-> structure.paragraphs + (IF flush THEN 1 ELSE 0),
                      headings |-> structure.headings + (IF kind = "heading" THEN 1 ELSE 0),
                      lists |-> structure.lists + (IF kind = "list" THEN 1 ELSE 0),
                      quotes |-> structure.quotes + (IF kind = "quote" THEN 1 ELSE 0)]
           ELSE IF isTopicChange(sentence, next)
                THEN /\ processedSentences' = processedSentences \o <<Paragraph(pushed), <<>>>>
                     /\ currentParagraph' = <<>>
                     /\ structure' = [structure EXCEPT !.paragraphs = @ + 1]
                ELSE /\ currentParagraph' = pushed
                     /\ UNCHANGED <<processedSentences, structure>>
        /\ classLog' = Append(classLog,
             [before |-> currentParagraph,
              pushed |-> SubSeq(processedSentences', Len(processedSentences) + 1,
                                Len(processedSentences')),
              after |-> currentParagraph',
              counters |-> structure'])
  /\ sentI' = sentI + 1
  /\ UNCHANGED <<nlpPc, rawText, options, processedText, confidence, sentences, nlpResult>>

\* lines 166-172 and 62-63: the last paragraph, the join and the return
StructureReturn ==
  /\ nlpPc = "loop"
  /\ sentI >= Len(sentences)
  /\ LET flush == currentParagraph # <<>>
         final == IF flush THEN Append(processedSentences, Paragraph(currentParagraph))
                  ELSE processedSentences
     IN /\ processedSentences' = final
        /\ structure' = [structure EXCEPT !.paragraphs = @ + (IF flush THEN 1 ELSE 0)]
        /\ processedText' = JoinWith(final, <<"\n\n">>)
  /\ confidence' = AddConfidence(confidence, STRUCTURE_INCREMENT)
  /\ nlpPc' = "formatting"
  /\ UNCHANGED <<rawText, options, sentences, sentI, currentParagraph, nlpResult, classLog>>

\* lines 66-69
FormattingPass ==
  /\ nlpPc = "formatting"
  /\ IF RunsFormatting(options)
     THEN /\ processedText' = applyFormatting(processedText)
          /\ confidence' = AddConfidence(confidence, FORMATTING_INCREMENT)
     ELSE UNCHANGED <<processedText, confidence>>
  /\ nlpPc' = "return"
  /\ UNCHANGED <<rawText, options, structure, sentences, sentI, processedSentences,
                 currentParagraph, nlpResult, classLog>>

\* lines 71-75
ProcessReturn ==
  /\ nlpPc = "return"
  /\ nlpResult' = [text |-> processedText, confidence |-> Min(confidence, MAX_CONFIDENCE),
                   structure |-> structure]
  /\ nlpPc' = "done"
  /\ UNCHANGED <<rawText, options, processedText, confidence, structure, sentences, sentI,
                 processedSentences, currentParagraph, classLog>>

NlpNext ==
  \/ ProcessCall
  \/ PunctuationPass
  \/ StructureStart
  \/ StructureIteration
  \/ StructureReturn
  \/ FormattingPass
  \/ ProcessReturn

\* lines 109-167 as a function: the blocks detectStructure pushes for the
\* sentences from position i on, given the open paragraph and the blocks so far
RECURSIVE StructureLoop(_, _, _, _)
StructureLoop(ss, i, paragraph, blocks) ==
  IF i > Len(ss)
  THEN IF paragraph # <<>> THEN Append(blocks, Paragraph(paragraph)) ELSE blocks
  ELSE LET sentence == LexTrim(ss[i])
           next == IF i + 1 <= Len(ss) THEN ss[i + 1] ELSE <<>>
           kind == Classify(sentence)
           flushed == IF paragraph # <<>> THEN Append(blocks, Paragraph(paragraph))
                      ELSE blocks
           pushed == Append(paragraph, sentence)
       IN IF kind # "regular"
          THEN StructureLoop(ss, i + 1, <<>>, Append(flushed, EmittedLine(kind, sentence)))
          ELSE IF isTopicChange(sentence, next)
               THEN StructureLoop(ss, i + 1, <<>>, blocks \o <<Paragraph(pushed), <<>>>>)
               ELSE StructureLoop(ss, i + 1, pushed, blocks)

\* lines 102-173: the text detectStructure returns
detectStructure(text) == JoinWith(StructureLoop(SplitSentences(text), 1, <<>>, <<>>), <<"\n\n">>)

\* lines 44-76: the text of processTranscript(text, opts)
processTranscript(text, opts) ==
  LET punctuated == IF RunsPunctuation(opts) THEN addPunctuation(text) ELSE text
      structured == IF RunsStructure(opts) THEN detectStructure(punctuated) ELSE punctuated
  IN IF RunsFormatting(opts) THEN applyFormatting(structured) ELSE structured

\* ------------------------------------------- useIntelligentTranscription
\* one call of transcribeAudio of the hook (hooks/useIntelligentTranscription.ts)
VARIABLES
  itPc,                \* position of the call and of its recognizer
  itConfig,            \* the ProcessingOptions built from config (lines 111-116)
  rawTranscript,       \* the local rawTranscript
  itTranscript,        \* useState: transcript
  interimTranscript,   \* useState: interimTranscript
  itError,             \* useState: error
  itIsTranscribing,    \* useState: isTranscribing
  itPromise,           \* the promise transcribeAudio returned
  itToast,             \* the 'Transcrição inteligente concluída' toast was shown
  itFinals             \* number of result events with final text so far

itVars ==
  <<itPc, itConfig, rawTranscript, itTranscript, interimTranscript, itError, itIsTranscribing,
    itPromise, itToast, itFinals>>

\* lines 96-105: finalText of one result event, each final followed by ' '
FinalTexts ==
  {<<"muito", " ">>, <<"a", " ", "muito", " ">>, <<"Introdução", " ">>,
   <<"Portanto", " ", "b", " ">>}
InterimTexts == {<<>>, <<"a">>}

ItIdle ==
  /\ itPc = "idle"
  /\ itConfig = [enablePunctuation |-> FALSE, enableStructure |-> FALSE,
                 enableFormatting |-> FALSE]
  /\ rawTranscript = <<>>
  /\ itTranscript = <<>>
  /\ interimTranscript = <<>>
  /\ itError = Null
  /\ itIsTranscribing = FALSE
  /\ itPromise = "none"
  /\ itToast = FALSE
  /\ itFinals = 0

\* the displayed text processed again with the new final text
ProcessingInput_Displayed(raw, displayed, finalText) == displayed \o finalText

\* lines 108 and 118: rawTranscript += finalText, and processTranscript(rawTranscript, ...)
ProcessingInput(raw, displayed, finalText) == raw \o finalText

\* lines 29-66: transcribeAudio up to the await of the audio's metadata
ItCall(opts) ==
  /\ itPc = "idle"
  /\ itPc' = "loading"
  /\ itConfig' = opts
  /\ itIsTranscribing' = TRUE
  /\ itTranscript' = <<>>
  /\ interimTranscript' = <<>>
  /\ itError' = Null
  /\ UNCHANGED <<rawTranscript, itPromise, itToast, itFinals>>

\* lines 59-61, 68-86 and 180: the duration is known, the recognizer is started
ItMetadataLoaded ==
  /\ itPc = "loading"
  /\ itPc' = "listening"
  /\ rawTranscript' = <<>>
  /\ itPromise' = "pending"
  /\ UNCHANGED <<itConfig, itTranscript, interimTranscript, itError, itIsTranscribing,
                 itToast, itFinals>>

\* lines 62-64 and 193-198: the audio element reported an error while loading
ItAudioLoadFailed ==
  /\ itPc = "loading"
  /\ itPc' = "thrown"
  /\ itError' = "Failed to load audio file"
  /\ itIsTranscribing' = FALSE
  /\ itPromise' = "rejected"
  /\ UNCHANGED <<itConfig, rawTranscript, itTranscript, interimTranscript, itToast, itFinals>>

\* lines 92-129: recognition.onresult
ItOnResult(finalText, interim) ==
  /\ itPc = "listening"
  /\ interimTranscript' = interim
  /\ IF finalText # <<>>
     THEN /\ itFinals < MaxFinals
          /\ itFinals' = itFinals + 1
          /\ rawTranscript' = rawTranscript \o finalText
          /\ itTranscript' =
               processTranscript(ProcessingInput(rawTranscript, itTranscript, finalText),
                                 itConfig)
     ELSE UNCHANGED <<itFinals, rawTranscript, itTranscript>>
  /\ UNCHANGED <<itPc, itConfig, itError, itIsTranscribing, itPromise, itToast>>

\* settling a promise that is already settled does nothing
Settle(promise, how) == IF promise = "pending" THEN how ELSE promise

\* lines 131-136: recognition.onerror
ItOnError ==
  /\ itPc = "listening"
  /\ itPc' = "errored"
  /\ itError' = "Erro na transcrição"
  /\ itIsTranscribing' = FALSE
  /\ itPromise' = Settle(itPromise, "rejected")
  /\ UNCHANGED <<itConfig, rawTranscript, itTranscript, interimTranscript, itToast, itFinals>>

\* lines 138-177: recognition.onend, which also follows an error event
ItOnEnd ==
  /\ itPc \in {"listening", "errored"}
  /\ itPc' = "ended"
  /\ itTranscript' = processTranscript(rawTranscript, itConfig)
  /\ itToast' = TRUE
  /\ itIsTranscribing' = FALSE
  /\ itPromise' = Settle(itPromise, "resolved")
  /\ UNCHANGED <<itConfig, rawTranscript, interimTranscript, itError, itFinals>>

\* lines 187-190: audio.onerror during playback; recognition.stop() lets the end
\* event follow
ItAudioError ==
  /\ itPc = "listening"
  /\ itPromise = "pending"
  /\ itPromise' = "rejected"
  /\ UNCHANGED <<itPc, itConfig, rawTranscript, itTranscript, interimTranscript, itError,
                 itIsTranscribing, itToast, itFinals>>

ItNext ==
  \/ \E opts \in Options : ItCall(opts)
  \/ ItMetadataLoaded
  \/ ItAudioLoadFailed
  \/ \E finalText \in FinalTexts \cup {<<>>}, interim \in InterimTexts :
       ItOnResult(finalText, interim)
  \/ ItOnError
  \/ ItOnEnd
  \/ ItAudioError

\* ------------------------------------------------------ useTranscription
\* one call of transcribeAudio of the hook (hooks/useTranscription.ts)
VARIABLES
  utPc,                \* position of the call and of its recognizer
  recordStatus,        \* status of the transcription record in the database
  pendingUpdates,      \* the updateTranscriptionRecord calls in flight, by status
  utTranscript,        \* the local finalTranscript, shown by setTranscript
  utError,             \* useState: error
  utIsTranscribing,    \* useState: isTranscribing
  utPromise,           \* the promise transcribeAudio returned
  utToast,             \* the 'Transcrição concluída' toast was shown
  utFinals             \* number of final results so far

utVars ==
  <<utPc, recordStatus, pendingUpdates, utTranscript, utError, utIsTranscribing, utPromise,
    utToast, utFinals>>

UtIdle ==
  /\ utPc = "idle"
  /\ recordStatus = "none"
  /\ pendingUpdates = {}
  /\ utTranscript = <<>>
  /\ utError = Null
  /\ utIsTranscribing = FALSE
  /\ utPromise = "none"
  /\ utToast = FALSE
  /\ utFinals = 0

\* lines 98-113: transcribeAudio up to `await createTranscriptionRecord(...)`
UtCall ==
  /\ utPc = "idle"
  /\ utPc' = "creating"
  /\ utIsTranscribing' = TRUE
  /\ utTranscript' = <<>>
  /\ utError' = Null
  /\ UNCHANGED <<recordStatus, pendingUpdates, utPromise, utToast, utFinals>>

\* lines 106-138 and 228: the record exists with status 'processing', the
\* recognizer is started
UtRecordCreated ==
  /\ utPc = "creating"
  /\ utPc' = "listening"
  /\ recordStatus' = "processing"
  /\ utPromise' = "pending"
  /\ UNCHANGED <<pendingUpdates, utTranscript, utError, utIsTranscribing, utToast, utFinals>>

\* lines 236-241: createTranscriptionRecord rejected
UtRecordFailed ==
  /\ utPc = "creating"
  /\ utPc' = "thrown"
  /\ utError' = "Erro desconhecido"
  /\ utIsTranscribing' = FALSE
  /\ utPromise' = "rejected"
  /\ UNCHANGED <<recordStatus, pendingUpdates, utTranscript, utToast, utFinals>>

\* lines 148-167: recognition.onresult with a final result
UtOnResult(w) ==
  /\ utPc = "listening"
  /\ utFinals < MaxFinals
  /\ utFinals' = utFinals + 1
  /\ utTranscript' = Append(utTranscript, w)
  /\ UNCHANGED <<utPc, recordStatus, pendingUpdates, utError, utIsTranscribing, utPromise,
                 utToast>>

\* lines 169-176: recognition.onerror up to its await
UtOnError ==
  /\ utPc = "listening"
  /\ utPc' = "errored"
  /\ utError' = "Erro na transcrição"
  /\ pendingUpdates' = pendingUpdates \cup {"failed"}
  /\ UNCHANGED <<recordStatus, utTranscript, utIsTranscribing, utPromise, utToast, utFinals>>

\* lines 181-210: recognition.onend up to its await; it also follows an error event
UtOnEnd ==
  /\ utPc \in {"listening", "errored"}
  /\ utPc' = "ended"
  /\ pendingUpdates' = pendingUpdates \cup {"completed"}
  /\ UNCHANGED <<recordStatus, utTranscript, utError, utIsTranscribing, utPromise, utToast,
                 utFinals>>

\* lines 173-176 and 203-210: the record takes the status of the update
StatusAfterUpdate(current, status) == status

\* lines 173-178 and 203-224: an update resolved; onerror rejects the promise,
\* onend shows the toast and resolves it
UtUpdateResolved(status) ==
  /\ status \in pendingUpdates
  /\ pendingUpdates' = pendingUpdates \ {status}
  /\ recordStatus' = StatusAfterUpdate(recordStatus, status)
  /\ IF status = "failed"
     THEN /\ utPromise' = Settle(utPromise, "rejected")
          /\ UNCHANGED <<utToast, utIsTranscribing>>
     ELSE /\ utToast' = TRUE
          /\ utPromise' = Settle(utPromise, "resolved")
          /\ utIsTranscribing' = FALSE
  /\ UNCHANGED <<utPc, utTranscript, utError, utFinals>>

\* lines 173-176 and 218-224: an update rejected; the async onerror handler ends
\* there without rejecting the promise, onend rejects it
UtUpdateRejected(status) ==
  /\ status \in pendingUpdates
  /\ pendingUpdates' = pendingUpdates \ {status}
  /\ IF status = "failed"
     THEN UNCHANGED <<utPromise, utIsTranscribing>>
     ELSE /\ utPromise' = Settle(utPromise, "rejected")
          /\ utIsTranscribing' = FALSE
  /\ UNCHANGED <<utPc, recordStatus, utTranscript, utError, utToast, utFinals>>

UtNext ==
  \/ UtCall
  \/ UtRecordCreated
  \/ UtRecordFailed
  \/ \E w \in Words : UtOnResult(w)
  \/ UtOnError
  \/ UtOnEnd
  \/ \E status \in {"failed", "completed"} : UtUpdateResolved(status)
  \/ \E status \in {"failed", "completed"} : UtUpdateRejected(status)

\* ---------------------------------------- the stitching loop on its own
\* The loop body of transcribeAudioChunked (lines 157-185) applied to segment
\* texts of several words, without the recognizer and audio events.
VARIABLES
  sFinalTranscript,    \* the local finalTranscript
  sIdx,                \* the loop variable i
  sLast                \* the last settled segment: [index, failed, text, before]

stitchVars == <<sFinalTranscript, sIdx, sLast>>

\* chunkText: "" or 1..MaxWords words
SegmentTexts == {EmptyStr} \cup UNION {[1..n -> Words] : n \in 1..MaxWords}

StitchIdle ==
  /\ sFinalTranscript = EmptyStr
  /\ sIdx = 0
  /\ sLast = [index |-> 0, failed |-> FALSE, text |-> EmptyStr, before |-> EmptyStr]

\* lines 158-176: transcribeChunk resolved with chunkText
SegmentResolved(chunkText) ==
  /\ sIdx < MaxSegments
  /\ sFinalTranscript' = Stitch(sIdx, chunkText, sFinalTranscript)
  /\ sLast' = [index |-> sIdx, failed |-> FALSE, text |-> chunkText,
               before |-> sFinalTranscript]
  /\ sIdx' = sIdx + 1

\* lines 179-185: transcribeChunk rejected, the loop continues
SegmentRejected ==
  /\ sIdx < MaxSegments
  /\ sLast' = [index |-> sIdx, failed |-> TRUE, text |-> EmptyStr,
               before |-> sFinalTranscript]
  /\ sIdx' = sIdx + 1
  /\ UNCHANGED sFinalTranscript

StitchNext ==
  \/ \E chunkText \in SegmentTexts : SegmentResolved(chunkText)
  \/ SegmentRejected

\* ---------------------------------------------------------- specifications
vars ==
  <<chunkedVars, whisperVars, sliceVars, transcribeVars, pageVars, stitchVars, nlpVars, itVars,
    utVars>>

ChunkedStep ==
  ChunkedNext /\ UNCHANGED <<whisperVars, sliceVars, transcribeVars, pageVars, stitchVars, nlpVars,
               itVars, utVars>>
WhisperStep ==
  WhisperNext /\ UNCHANGED <<chunkedVars, sliceVars, transcribeVars, pageVars, stitchVars, nlpVars,
               itVars, utVars>>
SliceStep ==
  SliceNext /\ UNCHANGED <<chunkedVars, whisperVars, transcribeVars, pageVars, stitchVars, nlpVars,
               itVars, utVars>>
TranscribeStep ==
  TranscribeNext /\ UNCHANGED <<chunkedVars, whisperVars, sliceVars, pageVars, stitchVars, nlpVars,
               itVars, utVars>>
PageStep ==
  PageNext /\ UNCHANGED <<chunkedVars, whisperVars, sliceVars, transcribeVars, stitchVars, nlpVars,
               itVars, utVars>>
NlpStep ==
  NlpNext /\ UNCHANGED <<chunkedVars, whisperVars, sliceVars, transcribeVars, pageVars, stitchVars,
               itVars, utVars>>
StitchStep ==
  StitchNext /\ UNCHANGED <<chunkedVars, whisperVars, sliceVars, transcribeVars, pageVars, nlpVars,
               itVars, utVars>>

Init ==
  ChunkedInit /\ WhisperInit /\ SliceIdle /\ TranscribeIdle /\ PageIdle /\ StitchIdle /\ NlpIdle
  /\ ItIdle /\ UtIdle

SliceCallInit ==
  ChunkedInit /\ WhisperInit /\ SliceInit /\ TranscribeIdle /\ PageIdle /\ StitchIdle /\ NlpIdle
  /\ ItIdle /\ UtIdle

\* the model is loaded; no transcription was asked for and no file was chosen
LoadedInit ==
  ChunkedInit /\ WhisperLoaded /\ SliceIdle /\ TranscribeIdle /\ PageIdle /\ StitchIdle /\ NlpIdle
  /\ ItIdle /\ UtIdle

SpecSlice == SliceCallInit /\ [][SliceStep]_vars

SpecChunked == Init /\ [][ChunkedStep]_vars

\* one invocation of transcribeAudioChunked with no later one overlapping it
SoloStep == ChunkedStep /\ pc'[2] = "idle"

SpecChunkedSolo == Init /\ [][SoloStep]_vars
SpecWhisper == Init /\ [][WhisperStep]_vars
SpecStitch == Init /\ [][StitchStep]_vars
SpecStructure == Init /\ [][NlpStep]_vars

ItStep ==
  ItNext /\ UNCHANGED <<chunkedVars, whisperVars, sliceVars, transcribeVars, pageVars,
                        stitchVars, nlpVars, utVars>>
UtStep ==
  UtNext /\ UNCHANGED <<chunkedVars, whisperVars, sliceVars, transcribeVars, pageVars,
                        stitchVars, nlpVars, itVars>>

SpecIntelligent == Init /\ [][ItStep]_vars
SpecTranscription == Init /\ [][UtStep]_vars

\* What runs without the recognition backend: decodeAudioData settles, the
\* play() promise settles and the chunk's audio plays to its end.  The
\* recognizer's result, end and error events are the backend's and have no
\* fairness: it may never answer.
LocalProgress(r) ==
  /\ \/ ChunksCreated(r) \/ ChunksFailed(r)
     \/ PlayResolved(r) \/ PlayRejected(r)
     \/ AudioEnded(r)
  /\ UNCHANGED <<whisperVars, sliceVars, transcribeVars, pageVars, stitchVars, nlpVars,
               itVars, utVars>>

ChunkedFairness == \A r \in Runs : WF_vars(LocalProgress(r))

SpecChunkedFair == Init /\ [][ChunkedStep]_vars /\ ChunkedFairness

\* the two places that choose between one file and parts. The service and the
\* page share no state, so each is explored with the other one at rest.
ServiceOrPageStep ==
  \/ PageIdle /\ TranscribeStep
  \/ TranscribeIdle /\ PageStep

SpecTranscribe == LoadedInit /\ [][ServiceOrPageStep]_vars

\* the two segment loops, of the hook and of the service. They share no state:
\* one invocation of the hook is explored first and one call of the service after
\* it has ended.
SegmentLoopStep ==
  \/ TranscribeIdle /\ SoloStep
  \/ pc[1] \in {"completed", "failed"} /\ TranscribeStep

SpecSegmentLoops == LoadedInit /\ [][SegmentLoopStep]_vars

\* --------------------------------------------------------- claims, hook
Terminal(r) == pc[r] \in {"completed", "failed"}
LiveChunks(r) == {k \in ChunkIdx : Live(recog[r][k])}
FailedSegs(r) == {p \in 1..Len(segLog[r]) : segLog[r][p].failed}
UsableSegs(r) == {p \in 1..Len(segLog[r]) :
                   ~segLog[r][p].failed /\ segLog[r][p].text # EmptyStr}
AllAttempted(r) == Terminal(r) /\ Len(segLog[r]) = Len(chunks[r])

\* the stitching of the non-failed entries of a segment log, in log order
RECURSIVE StitchLog(_, _)
StitchLog(log, ft) ==
  IF log = <<>> THEN ft
  ELSE StitchLog(Tail(log),
                 IF Head(log).failed THEN ft ELSE Stitch(Head(log).index, Head(log).text, ft))

\* C1: within one run at most one segment's recognizer is processing at any
\* time, on every path including a segment whose audio playback fails to start.
C1_OneSegmentAtATime == \A r \in Runs : Cardinality(LiveChunks(r)) <= 1

\* C2: after all segments were attempted the run ends Failed if and only if no
\* segment produced usable text; a run whose segments all failed or came back
\* empty is never reported as completed.
C2_FailedIffNoUsableText ==
  \A r \in Runs : AllAttempted(r) => (pc[r] = "failed" <=> UsableSegs(r) = {})

\* C3: when exactly one segment of a completed run failed, the transcript is the
\* stitching of the other segments only and the run reports one failed segment,
\* i.e. N-1 segments used.
C3_OneFailureReported ==
  \A r \in Runs :
    (pc[r] = "completed" /\ Len(chunks[r]) > 1 /\ Cardinality(FailedSegs(r)) = 1)
      => /\ outcome[r].transcribedText = Trim(StitchLog(segLog[r], EmptyStr))
         /\ outcome[r].toastSegments = Len(chunks[r]) - 1

\* C4: once the controller of a run has been aborted during its segment loop,
\* no further segment call of that run is started.
C4_NoCallAfterCancel ==
  [][\A r \in Runs, k \in ChunkIdx :
       (cancelPhase[r] = "transcribing" /\ recog[r][k] = "none")
         => recog'[r][k] = "none"]_vars

\* C5: a run whose controller was aborted while a segment was being transcribed
\* ends cancelled, never completed, and its partial transcript is neither
\* returned nor left in the transcript state.
C5_CancelDiscardsPartial ==
  \A r \in Runs :
    (Terminal(r) /\ cancelPhase[r] = "transcribing")
      => /\ outcome[r] = Thrown("Transcription cancelled")
         /\ transcript = EmptyStr

\* ------------------------------------- claims, LocalTranscriptionService
LoadsInFlight == {c \in Callers : wpc[c] \in Loading}

\* C6: model initialisation is single-flight: at most one load runs at a time,
\* a request made while a load is running or after a model was loaded starts no
\* load of its own, and no second pipeline is ever constructed.
C6_SingleFlightInit ==
  /\ Cardinality(LoadsInFlight) <= 1
  /\ nLoaded <= 1
  /\ whisperPipeline # Null => LoadsInFlight = {}
  /\ \A c \in Callers : initReturn[c] \in {"skipped", "reused"} => wpc[c] \notin Loading

\* a request was made during another caller's load, and the one model that
\* load produced was then reused by a later request
C6_Witness ==
  /\ nLoaded = 1
  /\ \E c \in Callers : initReturn[c] = "skipped"
  /\ \E c \in Callers : initReturn[c] = "reused"

\* ------------------------------------------------------- claims, slicers
ValidConfig(call) ==
  call.dur > 0 /\ 0 <= OverlapSamples(call) /\ OverlapSamples(call) < ChunkSamples(call)
Sliced == slicePc = "resolved" /\ ValidConfig(sliceCall)
WindowLen(w) == w.end - w.start
CeilDiv(a, b) == (a + b - 1) \div b

\* C7: the windows of the emitted segments cover [0, D) without a gap, each
\* segment starts S-O samples after the previous one, and consecutive segments
\* overlap by exactly O except where the final segment is involved.
C7_SlicingCoverage ==
  Sliced =>
    LET n == Len(sliceOut)
        S == ChunkSamples(sliceCall)
        O == OverlapSamples(sliceCall)
    IN /\ \A x \in 0..(sliceCall.total - 1) :
            \E p \in 1..n : sliceOut[p].start <= x /\ x < sliceOut[p].end
       /\ \A p \in 1..n : 0 <= sliceOut[p].start /\ sliceOut[p].end <= sliceCall.total
       /\ n >= 1 /\ sliceOut[1].start = 0
       /\ \A p \in 1..(n - 1) : sliceOut[p + 1].start = sliceOut[p].start + (S - O)
       /\ \A p \in 1..(n - 2) : sliceOut[p].end - sliceOut[p + 1].start = O

\* a 30 s / 2 s slicing of three segments whose last one is shorter
C7_Witness ==
  /\ Sliced /\ sliceCall.fn = "createAudioChunks"
  /\ Len(sliceOut) = 3
  /\ WindowLen(sliceOut[3]) < ChunkSamples(sliceCall)

\* C8: audio no longer than one segment is emitted as exactly one segment that
\* equals the whole input, the 30 s / 2 s configuration included.
C8_ShortAudioOneSegment ==
  (Sliced /\ sliceCall.total <= ChunkSamples(sliceCall))
    => sliceOut = <<[start |-> 0, end |-> sliceCall.total]>>

\* C9: with overlap 0, D samples in segments of S samples give ceil(D/S)
\* segments, all of S samples except the last, which has 1..S samples and ends
\* at D.
C9_NoOverlapCount ==
  (Sliced /\ OverlapSamples(sliceCall) = 0) =>
    LET n == Len(sliceOut)
        S == ChunkSamples(sliceCall)
    IN /\ n = CeilDiv(sliceCall.total, S)
       /\ \A p \in 1..(n - 1) : WindowLen(sliceOut[p]) = S
       /\ WindowLen(sliceOut[n]) \in 1..S
       /\ sliceOut[n].end = sliceCall.total

\* 600 s at 120 s: five segments; 601 s: a sixth one of a single sample
C9_Witness ==
  /\ Sliced /\ sliceCall.dur = LOCAL_CHUNK_SECONDS /\ sliceCall.total = 601
  /\ Len(sliceOut) = 6 /\ WindowLen(sliceOut[6]) = 1

\* C10: a segment duration that is not positive (or an overlap not below it) is
\* rejected before the audio is decoded or sliced.
C10_InvalidConfigRejectedFirst ==
  (slicePc # "idle" /\ ~ValidConfig(sliceCall)) => (~decoded /\ slicePc # "slicing")

\* ------------------------------------- claims, one file or parts
\* C11: a run enters the splitting path if and only if the audio lasts strictly
\* more than 180 s; audio of 180 s or less is transcribed as one segment and no
\* slicer is invoked for it. Both in transcribeAudio and on the Index page.
C11_SplitIffLong ==
  /\ (tPath = "chunked") <=> (audioDuration > 180)
  /\ (tPath = "single") <=> (audioDuration # 0 /\ audioDuration <= 180)
  /\ tPath = "chunked" => tSplits = 1
  /\ tPath # "chunked" => (tSplits = 0 /\ tChunks = <<>> /\ tpc \notin {"splitting", "chunk"})
  /\ (pPath = "chunked") <=> (runFile > 180)
  /\ (pPath = "single") <=> (runFile # 0 /\ runFile <= 180)
  /\ pPath = "chunked" => pSplits = 1
  /\ pPath # "chunked" => (pSplits = 0 /\ ppc \notin {"splitting", "chunk", "delay"})

\* 180 s went through transcribeSingle to the end
C11_Witness == tpc = "done" /\ tPath = "single" /\ audioDuration = 180 /\ tSplits = 0

\* the texts of the non-failed entries of a chunk log, one after the other
RECURSIVE ConcatTexts(_)
ConcatTexts(log) ==
  IF log = <<>> THEN <<>>
  ELSE (IF Head(log).failed THEN <<>> ELSE Head(log).text) \o ConcatTexts(Tail(log))

IsWord(x) == x \in Vocabulary
IsMarker(x) == x \notin Vocabulary \cup Whitespace \cup Delimiters \cup {","}
WordsOf(t) == SelectSeq(t, IsWord)
MarkersOf(t) == SelectSeq(t, IsMarker)
WithoutSpaces(t) == SelectSeq(t, LAMBDA x : ~IsWs(x))

\* the headers and placeholders a chunk log calls for
RECURSIVE ExpectedMarkers(_)
ExpectedMarkers(log) ==
  IF log = <<>> THEN <<>>
  ELSE LET e == Head(log)
           header == PartHeader(e.index + 1, e.index * LOCAL_CHUNK_SECONDS)
       IN (IF e.failed THEN WithoutSpaces(header \o ChunkErrorPlaceholder)
           ELSE IF LexTrim(e.text) # <<>> THEN WithoutSpaces(header)
           ELSE <<>>) \o ExpectedMarkers(Tail(log))

RealTokens(str) == SelectSeq(str, LAMBDA x : x # "")

IsSuffixOf(a, b) == Len(a) <= Len(b) /\ a = SubSeq(b, Len(b) - Len(a) + 1, Len(b))

\* ws is made of one suffix of the words of each non-failed entry of log, in the
\* order of the entries
RECURSIVE OrderedSuffixes(_, _)
OrderedSuffixes(log, ws) ==
  IF log = <<>> THEN ws = <<>>
  ELSE IF Head(log).failed THEN OrderedSuffixes(Tail(log), ws)
  ELSE \E n \in 0..Len(ws) :
         /\ IsSuffixOf(SubSeq(ws, 1, n), RealTokens(Head(log).text))
         /\ OrderedSuffixes(Tail(log), SubSeq(ws, n + 1, Len(ws)))

\* C13: the segment calls of a run settle in ascending index order, one per
\* index; the accumulated transcript is made of the surviving words of the
\* non-failed segments in that order, whatever the order and number of the
\* recognizer and audio events; a run returns its result only when every
\* segment has been attempted, and the result is the accumulated transcript.
C13_StitchedInIndexOrder ==
  \A r \in Runs :
    /\ \A p \in 1..Len(segLog[r]) : segLog[r][p].index = p - 1
    /\ OrderedSuffixes(segLog[r], RealTokens(finalTranscript[r]))
    /\ pc[r] = "completed" =>
         /\ Len(segLog[r]) = Len(chunks[r])
         /\ outcome[r].transcribedText = Trim(finalTranscript[r])

C13_Witness ==
  \E r \in Runs :
    /\ pc[r] = "completed"
    /\ Len(segLog[r]) = 2
    /\ segLog[r][1].text = <<"a">> /\ segLog[r][2].text = <<"b">>
    /\ outcome[r].transcribedText = <<"a", "b">>

\* ------------------------------------------------ claims, segment time-out
\* C16: every segment call in flight eventually settles, although the
\* recognizer may never deliver a result, end or error event, and the run
\* eventually reaches a terminal state.
C16_EverySegmentSettles ==
  \A r \in Runs :
    /\ \A k \in ChunkIdx : Current(r, k) ~> ~Current(r, k)
    /\ InFlight(r) ~> pc[r] \in {"completed", "failed"}

\* ------------------------------------------------ claims, overlap removal
Max(S) == CHOOSE x \in S : \A y \in S : y <= x

\* C18: when a non-failed segment i > 0 is appended to a non-empty transcript,
\* the first min(3, n) words of the segment are compared with the last 3
\* accumulated words; the words up to the last matching position are dropped
\* and the others are appended in order; with no match nothing is dropped.
C18_DropsMatchedPrefix ==
  (sLast.index > 0 /\ ~sLast.failed /\ sLast.text # EmptyStr /\ sLast.before # EmptyStr) =>
    LET words == RealTokens(sLast.text)
        accumulated == RealTokens(sLast.before)
        window == Last3(accumulated)
        hits == {j \in 0..(Min(3, Len(words)) - 1) : Includes(window, words[j + 1])}
        dropped == IF hits = {} THEN 0 ELSE Max(hits) + 1
    IN RealTokens(sFinalTranscript) = accumulated \o SliceFrom(words, dropped)

\* ------------------------------------------- claims, processTranscript
\* every pass enabled in a is enabled in b
FewerPasses(a, b) ==
  /\ a.enablePunctuation => b.enablePunctuation
  /\ a.enableStructure => b.enableStructure
  /\ a.enableFormatting => b.enableFormatting

\* C14: the confidence a call returns lies between 0 and 1 (100 hundredths),
\* is the one its options determine, is no larger than the confidence of any
\* option set that enables at least the same passes and no smaller than that
\* of any option set that enables at most the same passes.
C14_ConfidenceMonotone ==
  nlpPc = "done" =>
    /\ nlpResult.confidence >= 0
    /\ nlpResult.confidence <= MAX_CONFIDENCE
    /\ nlpResult.confidence = ConfidenceOf(options)
    /\ \A other \in Options :
         /\ FewerPasses(options, other) => nlpResult.confidence <= ConfidenceOf(other)
         /\ FewerPasses(other, options) => ConfidenceOf(other) <= nlpResult.confidence

C14_Witness ==
  /\ nlpPc = "done"
  /\ Len(rawText) > 1
  /\ options.enablePunctuation /\ options.enableStructure /\ options.enableFormatting
  /\ nlpResult.confidence = MAX_CONFIDENCE

\* the sentences after the first, trimmed
BodyOf(ss) == [k \in 1..(Len(ss) - 1) |-> LexTrim(ss[k + 1])]

\* detectStructure has just returned for a text whose first sentence matches a
\* title pattern and is shorter than 50 characters, and which has more sentences
TitleThenBody ==
  /\ nlpPc = "formatting"
  /\ options.enableStructure
  /\ Len(sentences) >= 2
  /\ MatchesTitlePattern(LexTrim(sentences[1]))
  /\ SentenceLength(LexTrim(sentences[1])) < TITLE_MAX_LENGTH

\* the first sentence is a first-level heading, it is the only heading, and the
\* other sentences are one paragraph
HeadingAndOneParagraph ==
  /\ processedText =
       <<"#", " ">> \o LexTrim(sentences[1]) \o <<"\n\n">> \o Paragraph(BodyOf(sentences))
  /\ structure = [paragraphs |-> 1, headings |-> 1, lists |-> 0, quotes |-> 0]

\* C15 as stated: whatever the body sentences are, the first sentence is
\* emitted as a heading, headings is 1 and the body is one paragraph.
C15_TitleThenParagraph == TitleThenBody => HeadingAndOneParagraph

\* every sentence after the first fails the title, list and quote tests, and
\* no element of the split after the second begins with a transition word
PlainBody ==
  /\ \A k \in 2..Len(sentences) :
       LET s == LexTrim(sentences[k]) IN ~isTitle(s) /\ ~isList(s) /\ ~isQuote(s)
  /\ \A k \in 3..Len(sentences) : ToLowerCase(sentences[k][1]) \notin TransitionWords

\* C15, amended: when the body sentences are all regular and none of them is
\* followed by an element that begins with a transition word, the first
\* sentence is emitted as a heading, headings is 1 and the body is one paragraph.
C15_TitleThenPlainBody == (TitleThenBody /\ PlainBody) => HeadingAndOneParagraph

C15_Witness ==
  /\ TitleThenBody
  /\ PlainBody
  /\ Len(sentences) = 3
  /\ structure.headings = 1
  /\ structure.paragraphs = 1

\* C17: a pass whose option is false changes neither the text nor a counter,
\* and with all three options false the call returns the input text, four
\* counters at 0 and the base confidence.
C17_DisabledPassIsIdentity ==
  [][/\ (nlpPc = "punctuation" /\ ~options.enablePunctuation) =>
          (processedText' = processedText /\ structure' = structure)
     /\ (nlpPc \in {"structure", "loop"} /\ ~options.enableStructure) =>
          (processedText' = processedText /\ structure' = structure)
     /\ (nlpPc = "formatting" /\ ~options.enableFormatting) =>
          (processedText' = processedText /\ structure' = structure)
     /\ (/\ nlpPc' = "done"
         /\ ~options.enablePunctuation /\ ~options.enableStructure
         /\ ~options.enableFormatting) =>
          /\ nlpResult'.text = rawText
          /\ nlpResult'.structure = NoCounters
          /\ nlpResult'.confidence = BASE_CONFIDENCE]_vars

C17_Witness ==
  /\ nlpPc = "done"
  /\ ~options.enablePunctuation /\ ~options.enableStructure /\ ~options.enableFormatting
  /\ nlpResult.text = rawText
  /\ addPunctuation(rawText) # rawText
  /\ applyFormatting(rawText) # rawText
  /\ Len(SplitSentences(rawText)) >= 2

CountersBefore(k) == IF k = 1 THEN NoCounters ELSE classLog[k - 1].counters

\* C19: each sentence is handled as exactly one of heading, list item, quote
\* and regular, the title test first, then the list test, then the quote test;
\* a sentence that is not regular first flushes a non-empty paragraph buffer
\* as a paragraph.
C19_ClassifiedByPriority ==
  \A k \in 1..Len(classLog) :
    LET e == classLog[k]
        s == LexTrim(sentences[k])
        c == CountersBefore(k)
        flush == e.before # <<>>
        flushLine == IF flush THEN <<Paragraph(e.before)>> ELSE <<>>
        flushed == c.paragraphs + (IF flush THEN 1 ELSE 0)
    IN IF isTitle(s)
       THEN /\ \E h \in {"#", "##"} : e.pushed = flushLine \o <<<<h, " ">> \o s>>
            /\ e.after = <<>>
            /\ e.counters = [paragraphs |-> flushed, headings |-> c.headings + 1,
                             lists |-> c.lists, quotes |-> c.quotes]
       ELSE IF isList(s)
       THEN /\ e.pushed = flushLine \o <<<<Bullet, " ">> \o s>>
            /\ e.after = <<>>
            /\ e.counters = [paragraphs |-> flushed, headings |-> c.headings,
                             lists |-> c.lists + 1, quotes |-> c.quotes]
       ELSE IF isQuote(s)
       THEN /\ e.pushed = flushLine \o <<<<"\"">> \o s \o <<"\"">>>>
            /\ e.after = <<>>
            /\ e.counters = [paragraphs |-> flushed, headings |-> c.headings,
                             lists |-> c.lists, quotes |-> c.quotes + 1]
       ELSE \/ e.pushed = <<>> /\ e.after = Append(e.before, s) /\ e.counters = c
            \/ /\ e.pushed = <<Paragraph(Append(e.before, s)), <<>>>>
               /\ e.after = <<>>
               /\ e.counters = [c EXCEPT !.paragraphs = @ + 1]

C19_Witness ==
  /\ Len(classLog) = 3
  /\ LET s2 == LexTrim(sentences[2])
         s3 == LexTrim(sentences[3])
     IN /\ isTitle(s2) /\ isList(s2) /\ isQuote(s2)
        /\ classLog[2].before # <<>>
        /\ Len(classLog[2].pushed) = 2
        /\ ~isTitle(s3) /\ isList(s3) /\ isQuote(s3)
        /\ classLog[3].counters.lists = 1

BeginsWithTransition(s) == s # <<>> /\ ToLowerCase(s[1]) \in TransitionWords

\* C20: when a regular sentence is followed in the sentence list by a sentence
\* that begins with a transition word, the paragraph is flushed right after the
\* regular sentence and the paragraph count goes up by one.
C20_FlushBeforeTransition ==
  \A k \in 1..Len(classLog) :
    (/\ k < Len(sentences)
     /\ Classify(LexTrim(sentences[k])) = "regular"
     /\ BeginsWithTransition(LexTrim(sentences[k + 1]))) =>
      /\ classLog[k].after = <<>>
      /\ classLog[k].counters.paragraphs = CountersBefore(k).paragraphs + 1

\* --------------------------------------------- claims, terminal punctuation
EndsWithDelimiter(t) == t # <<>> /\ t[Len(t)] \in Delimiters

\* C21: after the punctuation pass the text ends with '.', '!' or '?'; a period
\* was appended when the input did not end with one of them, and nothing was
\* appended when it did.
C21_EndsWithTerminalMark ==
  (nlpPc = "structure" /\ options.enablePunctuation) =>
    /\ EndsWithDelimiter(processedText)
    /\ ~EndsWithDelimiter(rawText) => processedText[Len(processedText)] = "."
    /\ EndsWithDelimiter(rawText) =>
         /\ processedText[Len(processedText)] = rawText[Len(rawText)]
         /\ Len(processedText) = 1 \/ processedText[Len(processedText) - 1] \notin Delimiters

\* ------------------------------------------ claims, structure accounting
\* what an element of processedSentences is, read off its markup
BlockKind(e) ==
  IF e = <<>> THEN "break"
  ELSE IF e[1] \in {"#", "##"} THEN "heading"
  ELSE IF e[1] = Bullet THEN "list"
  ELSE IF e[1] = "\"" THEN "quote"
  ELSE "paragraph"

\* the sentences an element holds, without its markup
BlockSentences(e) ==
  CASE BlockKind(e) = "break" -> <<>>
    [] BlockKind(e) \in {"heading", "list"} -> <<SubSeq(e, 3, Len(e))>>
    [] BlockKind(e) = "quote" -> <<SubSeq(e, 2, Len(e) - 1)>>
    [] BlockKind(e) = "paragraph" ->
         LET parts == SplitSentences(e) IN [k \in 1..Len(parts) |-> LexTrim(parts[k])]

RECURSIVE AllBlockSentences(_)
AllBlockSentences(blocks) ==
  IF blocks = <<>> THEN <<>>
  ELSE BlockSentences(Head(blocks)) \o AllBlockSentences(Tail(blocks))

BlockCount(blocks, kind) == Len(SelectSeq(blocks, LAMBDA e : BlockKind(e) = kind))

\* C29: when detectStructure returns, the sentences of its blocks are the
\* non-blank input sentences, once each and in input order, the four counters
\* are the numbers of heading, list, quote and paragraph blocks, and the
\* headings, lists, quotes and sentences in paragraphs add up to the number of
\* input sentences.
C29_EverySentenceOnce ==
  (nlpPc = "formatting" /\ options.enableStructure) =>
    /\ AllBlockSentences(processedSentences) = [k \in 1..Len(sentences) |-> LexTrim(sentences[k])]
    /\ processedText = JoinWith(processedSentences, <<"\n\n">>)
    /\ structure = [paragraphs |-> BlockCount(processedSentences, "paragraph"),
                    headings |-> BlockCount(processedSentences, "heading"),
                    lists |-> BlockCount(processedSentences, "list"),
                    quotes |-> BlockCount(processedSentences, "quote")]
    /\ structure.headings + structure.lists + structure.quotes
         + Len(AllBlockSentences(SelectSeq(processedSentences,
                                           LAMBDA e : BlockKind(e) = "paragraph")))
       = Len(sentences)

C29_Witness ==
  /\ nlpPc = "formatting"
  /\ options.enableStructure
  /\ Len(sentences) = 3
  /\ Len(processedSentences) = 2
  /\ Len(BlockSentences(processedSentences[1])) = 2
  /\ structure.paragraphs = 1
  /\ structure.lists = 1

\* ------------------------------------------------ claims, the model load
\* initializeWhisper has returned normally to caller c
ReturnedNormally(c) == initReturn[c] \in {"reused", "skipped", "loaded"}

\* C25: a caller to whom initializeWhisper has returned normally finds the
\* pipeline initialized, so transcribeSingle never invokes a null pipeline.
C25_PipelineReadyOnReturn ==
  \A c \in Callers : ReturnedNormally(c) => whisperPipeline # Null

LoadInFlight == \E c \in Callers : wpc[c] \in Loading

\* C30: isModelLoading is true exactly while a load is in flight; when the
\* WASM load fails after the WebGPU load, the call throws with whisperPipeline
\* still null and isModelLoading false; and a call made while the pipeline is
\* null and no load is in flight starts a load.
C30_FailedLoadNotSticky ==
  [][/\ isModelLoading' <=> LoadInFlight'
     /\ \A c \in Callers :
          /\ (wpc[c] = "loadWasm" /\ wpc'[c] # "loadWasm") =>
                \/ whisperPipeline' = "wasm"
                \/ /\ initReturn'[c] = "threw"
                   /\ wpc'[c] = "error"
                   /\ whisperPipeline' = Null
                   /\ ~isModelLoading'
          /\ (wpc[c] = "idle" /\ wpc'[c] # "idle" /\ whisperPipeline = Null /\ ~LoadInFlight) =>
                /\ wpc'[c] = "loadWebgpu"
                /\ isModelLoading'
    ]_vars

\* a load failed on both devices and a later call is loading afresh
C30_Witness ==
  \E c, d \in Callers :
    /\ initReturn[c] = "threw"
    /\ wpc[c] = "error"
    /\ wpc[d] = "loadWebgpu"
    /\ isModelLoading
    /\ whisperPipeline = Null

\* ------------------------------------------------- claims, segment progress
Range(sq) == {sq[j] : j \in 1..Len(sq)}
InSeq(x, sq) == \E j \in 1..Len(sq) : sq[j] = x
Added(before, after) == SubSeq(after, Len(before) + 1, Len(after))

\* segment i of run r settles in this step; segment i of the service does
HookSettles(r, i) ==
  /\ Len(segLog'[r]) = Len(segLog[r]) + 1
  /\ segLog'[r][Len(segLog'[r])].index = i
ServiceSettles(i) ==
  /\ Len(tLog') = Len(tLog) + 1
  /\ tLog'[Len(tLog')].index = i

\* e is the service's update for segment i of n: progress 40 + (i / n) * 40
ForSegment(e, i, n) == e.status = "transcribing" /\ e.num * n = (40 * n + 40 * i) * e.den

\* currentChunk stays within 0..totalChunks and goes up one segment at a time
CountsSegments(r) ==
  /\ \A j \in 1..Len(published[r]) :
       /\ published[r][j].totalChunks = Len(chunks[r])
       /\ published[r][j].currentChunk \in 0..published[r][j].totalChunks
  /\ published[r] # <<>> => published[r][1].currentChunk = 0
  /\ \A j \in 1..(Len(published[r]) - 1) :
       published[r][j + 1].currentChunk - published[r][j].currentChunk \in {0, 1}
  /\ chunkProgress # <<>> => chunkProgress[1].currentChunk \in 0..chunkProgress[1].totalChunks
  /\ InFlight(r) => published[r][Len(published[r])].currentChunk = idx[r] + 1

\* C23 as stated: currentChunk stays within 0..totalChunks and advances by one
\* per segment, and when segment i settles, whether it succeeded or failed, the
\* progress update for segment i is published, in the hook and in the service.
C23_UpdateAfterSegment ==
  [][/\ \A r \in Runs : CountsSegments(r)'
     /\ \A r \in Runs, i \in ChunkIdx :
          HookSettles(r, i) =>
            \E e \in Range(Added(published[r], published'[r])) : e.currentChunk = i + 1
     /\ \A i \in 0..(Len(tChunks) - 1) :
          ServiceSettles(i) =>
            \E e \in Range(Added(tProgress, tProgress')) : ForSegment(e, i, Len(tChunks))
    ]_vars

\* C23, amended: currentChunk stays within 0..totalChunks and advances by one
\* per segment. The hook publishes currentChunk = i + 1 with chunkProgress 0
\* before segment i and with chunkProgress 100 once it has settled, whether it
\* succeeded or failed. The service publishes the update for segment i, with
\* progress 40 + (i / n) * 40, before segment i and nothing for it afterwards:
\* what follows is the update for segment i + 1 or the completed event.
C23_UpdateAroundSegment ==
  [][/\ \A r \in Runs : CountsSegments(r)'
     /\ \A r \in Runs, i \in ChunkIdx :
          HookSettles(r, i) =>
            /\ InSeq([currentChunk |-> i + 1, totalChunks |-> Len(chunks[r]),
                      chunkProgress |-> 0], published[r])
            /\ Added(published[r], published'[r])[1] =
                 [currentChunk |-> i + 1, totalChunks |-> Len(chunks[r]),
                  chunkProgress |-> 100]
     /\ \A i \in 0..(Len(tChunks) - 1) :
          ServiceSettles(i) =>
            /\ \E e \in Range(tProgress) : ForSegment(e, i, Len(tChunks))
            /\ LET added == Added(tProgress, tProgress')
               IN /\ Len(added) = 1
                  /\ IF i + 1 < Len(tChunks)
                     THEN ForSegment(added[1], i + 1, Len(tChunks)) /\ tIdx' = i + 1
                     ELSE added[1] = [status |-> "completed", num |-> 100, den |-> 1]
    ]_vars

\* both loops have run over two segments, the first of which failed
C23_Witness ==
  /\ pc[1] = "completed"
  /\ Len(segLog[1]) = 2 /\ segLog[1][1].failed /\ ~segLog[1][2].failed
  /\ Len(published[1]) = 5
  /\ tpc = "done"
  /\ Len(tLog) = 2 /\ tLog[1].failed /\ ~tLog[2].failed
  /\ Len(tProgress) = 4

\* ------------------------------------------------- claims, the session
\* C24: the step that ends a run, by return or by throw, leaves isProcessing
\* false, chunkProgress null and the controller reference null, and while a
\* run's segment call is in flight isProcessing is true.
C24_SessionFollowsRun ==
  [][\A r \in Runs :
       /\ (~Terminal(r) /\ Terminal(r)') =>
            /\ ~isProcessing'
            /\ chunkProgress' = <<>>
            /\ abortControllerRef' = 0
       /\ InFlight(r)' => isProcessing'
    ]_vars

Ongoing(r) == pc[r] \in {"splitting", "transcribing"}

\* C26: a run that has not ended finds its own controller in the reference
\* that its cancellation check reads, whatever another invocation has done, and
\* no run fails on a reference that another one has cleared.
C26_RunsKeepTheirController ==
  \A r \in Runs :
    /\ Ongoing(r) => abortControllerRef = r
    /\ outcome[r].message # "Cannot read properties of null"

\* ------------------------------------------------ claims, progress values
\* the events of a log lie within 0..100 and none before an error event is
\* lower than the one before it
Monotone(log) ==
  /\ \A j \in 1..Len(log) : 0 <= log[j].num /\ log[j].num <= 100 * log[j].den
  /\ \A j \in 1..(Len(log) - 1) :
       log[j + 1].status # "error" => log[j].num * log[j + 1].den <= log[j + 1].num * log[j].den

\* C28: the progress values of a transcribeAudio run lie within 0..100 and do
\* not decrease from the first event up to the completed event.
C28_ProgressNeverDecreases ==
  \A c \in Callers : callKind[c] = "transcribe" => Monotone(wProgress[c])

\* the events of the service's call from line 106 on are in order
ServiceProgressInOrder == Monotone(tProgress)

\* the function and the pass-by-pass run of processTranscript agree
ProcessTranscriptAgrees ==
  nlpPc = "done" => nlpResult.text = processTranscript(rawText, options)

\* ------------------------------------------- claims, recognition sessions
\* the emphasis word at position p of t stands between one pair of '**'
WrappedOnce(t, p) ==
  /\ 1 < p /\ p < Len(t)
  /\ t[p - 1] = "**" /\ t[p + 1] = "**"
  /\ p - 2 >= 1 => t[p - 2] # "**"
  /\ p + 2 <= Len(t) => t[p + 2] # "**"

EmphasisAt(t) == {p \in 1..Len(t) : ToLowerCase(t[p]) \in EmphasisWords}

Recognizing == itPc \in {"listening", "errored", "ended"}

\* C22 as stated: the displayed transcript is the structuring of the raw
\* accumulated text, and every emphasis word in it is wrapped exactly once.
C22_EmphasisAlwaysWrapped ==
  Recognizing =>
    /\ itTranscript = processTranscript(rawTranscript, itConfig)
    /\ \A p \in EmphasisAt(itTranscript) : WrappedOnce(itTranscript, p)

\* C22, amended: the displayed transcript is the structuring of the raw
\* accumulated text under the options of the call; when formatting is enabled
\* every emphasis word in it is wrapped exactly once, and when it is disabled
\* none is wrapped.
C22_StructuringOfRawText ==
  Recognizing =>
    /\ itTranscript = processTranscript(rawTranscript, itConfig)
    /\ itConfig.enableFormatting =>
         \A p \in EmphasisAt(itTranscript) : WrappedOnce(itTranscript, p)
    /\ ~itConfig.enableFormatting => \A p \in 1..Len(itTranscript) : itTranscript[p] # "**"
    /\ Cardinality(EmphasisAt(itTranscript)) = Cardinality(EmphasisAt(rawTranscript))

\* two result events with an emphasis word each, then the end event
C22_Witness ==
  /\ itPc = "ended"
  /\ itFinals = 2
  /\ itConfig.enableFormatting /\ itConfig.enableStructure /\ itConfig.enablePunctuation
  /\ Cardinality(EmphasisAt(itTranscript)) = 2

\* the error event has marked the transcription as failed
MarkedFailed == recordStatus = "failed" /\ utError # Null /\ utPromise = "rejected"

\* C27: once the error event has marked the transcription as failed, no later
\* step sets the record to 'completed' or shows the toast of a completed run.
C27_FailedStaysFailed ==
  [][MarkedFailed => (recordStatus' # "completed" /\ (utToast' => utToast))]_vars

====
